---- MODULE Spec2Model ----
(***************************************************************************)
(* Retrieval index of the Insurance-Document-Analyzer: the VectorStore    *)
(* class of src/vector_store.py (in-memory documents / TF-IDF matrix /    *)
(* vectorizer, the three pickle files under vector_db/) and its callers.  *)
(*                                                                         *)
(* Numbers: idf weights are kept in tenths, similarities and scores in    *)
(* thousandths (fixed point instead of float64).                           *)
(***************************************************************************)
EXTENDS Integers, Sequences, FiniteSets, TLC

\* An optional value (an attribute that may be None, a file that may not
\* exist): None, or Some(v) holding v.
None == <<>>
Some(v) == <<v>>
Value(opt) == opt[1]

(***************************************************************************)
(* Texts.  A chunk text is one of a small catalogue of concrete strings;  *)
(* TextFacts gives, for each, the facts the code reads off the string     *)
(* (lengths, substring and regex tests, token lists).                     *)
(***************************************************************************)
KNEE == "The knee surgery waiting period is the same as for all of the others here."
HIP == "The hip surgery waiting period is the same as for all of the others here."
AMBULANCE == "Ambulance charges are payable up to the amount that is due for each."
THANKS == "Thank you for choosing us."
DEDUCTIBLE == "The deductible is the part of each claim that you are to bear yourself."
\* A tally: "knee" followed by 72 times "claim".
REPEAT == "knee claim claim claim claim claim claim claim claim claim claim claim claim claim claim claim claim claim claim claim claim claim claim claim claim claim claim claim claim claim claim claim claim claim claim claim claim claim claim claim claim claim claim claim claim claim claim claim claim claim claim claim claim claim claim claim claim claim claim claim claim claim claim claim claim claim claim claim claim claim claim claim claim"

Texts == {KNEE, HIP, AMBULANCE, THANKS, DEDUCTIBLE, REPEAT}

\* len: len(text.strip());  contact: some pure_contact_patterns entry occurs in
\* text_lower;  uin: the UIN-header regex matches;  keyword: some
\* relevant_keywords entry occurs in text_lower;  codes: the medical-code regex
\* matches;  longwords: number of whitespace-split words longer than 2;
\* tokens: text_lower under sklearn's token_pattern (?u)\b\w\w+\b;
\* words: set(text_lower.split());  contains: the expansion terms of
\* _parse_structured_query that occur in text_lower as substrings.
TextFacts(t) ==
    CASE t = KNEE ->
           [len |-> 74, contact |-> FALSE, uin |-> FALSE, keyword |-> TRUE,
            codes |-> FALSE, longwords |-> 12,
            tokens |-> <<"the", "knee", "surgery", "waiting", "period", "is", "the",
                         "same", "as", "for", "all", "of", "the", "others", "here">>,
            words |-> {"the", "knee", "surgery", "waiting", "period", "is", "same",
                       "as", "for", "all", "of", "others", "here."},
            contains |-> {"knee", "surgery", "waiting period"}]
      [] t = HIP ->
           [len |-> 73, contact |-> FALSE, uin |-> FALSE, keyword |-> TRUE,
            codes |-> FALSE, longwords |-> 12,
            tokens |-> <<"the", "hip", "surgery", "waiting", "period", "is", "the",
                         "same", "as", "for", "all", "of", "the", "others", "here">>,
            words |-> {"the", "hip", "surgery", "waiting", "period", "is", "same",
                       "as", "for", "all", "of", "others", "here."},
            contains |-> {"hip", "surgery", "waiting period"}]
      [] t = AMBULANCE ->
           [len |-> 68, contact |-> FALSE, uin |-> FALSE, keyword |-> TRUE,
            codes |-> FALSE, longwords |-> 10,
            tokens |-> <<"ambulance", "charges", "are", "payable", "up", "to", "the",
                         "amount", "that", "is", "due", "for", "each">>,
            words |-> {"ambulance", "charges", "are", "payable", "up", "to", "the",
                       "amount", "that", "is", "due", "for", "each."},
            contains |-> {}]
      [] t = THANKS ->
           [len |-> 26, contact |-> FALSE, uin |-> FALSE, keyword |-> FALSE,
            codes |-> FALSE, longwords |-> 5,
            tokens |-> <<"thank", "you", "for", "choosing", "us">>,
            words |-> {"thank", "you", "for", "choosing", "us."},
            contains |-> {}]
      [] t = DEDUCTIBLE ->
           [len |-> 71, contact |-> FALSE, uin |-> FALSE, keyword |-> TRUE,
            codes |-> FALSE, longwords |-> 11,
            tokens |-> <<"the", "deductible", "is", "the", "part", "of", "each",
                         "claim", "that", "you", "are", "to", "bear", "yourself">>,
            words |-> {"the", "deductible", "is", "part", "of", "each", "claim",
                       "that", "you", "are", "to", "bear", "yourself."},
            contains |-> {}]
      [] t = REPEAT ->
           [len |-> 436, contact |-> FALSE, uin |-> FALSE, keyword |-> TRUE,
            codes |-> FALSE, longwords |-> 73,
            tokens |-> <<"knee">> \o [i \in 1..72 |-> "claim"],
            words |-> {"knee", "claim"},
            contains |-> {"knee"}]

\* Lines 256-300 on the facts f of a text.
is_relevant_content_of(f) ==
    LET is_pure_contact == f.contact /\ f.len < 200
        has_relevant_content == f.keyword
        has_medical_codes == f.codes
        has_substantial_text == f.longwords > 5
    IN  IF f.len < 50 THEN FALSE
        ELSE IF is_pure_contact THEN FALSE
        ELSE IF f.uin THEN FALSE
        ELSE has_relevant_content \/ has_medical_codes
                 \/ (has_substantial_text /\ f.len > 100)

\* _is_relevant_content: the filter applied to every chunk of a batch.
_is_relevant_content(text) == is_relevant_content_of(TextFacts(text))

(***************************************************************************)
(* sklearn's TfidfVectorizer as configured in VectorStore.__init__:        *)
(* stop_words='english', ngram_range=(1, 2), min_df=1, max_df=0.9,         *)
(* max_features=5000.  A feature is a tuple of one or two tokens.          *)
(***************************************************************************)
\* The entries of sklearn's English stop-word list that occur in the catalogue
\* texts and queries.
stop_words ==
    {"the", "is", "same", "as", "for", "all", "of", "others", "here", "are", "up",
     "to", "amount", "that", "due", "each", "you", "us", "part", "yourself"}

\* Every feature of the catalogue texts in the alphabetical order of the joined
\* feature strings; a fitted vocabulary's column order is this order.
Lexicon ==
    << <<"ambulance">>, <<"ambulance", "charges">>, <<"bear">>, <<"charges">>,
       <<"charges", "payable">>, <<"choosing">>, <<"claim">>, <<"claim", "bear">>,
       <<"claim", "claim">>, <<"deductible">>, <<"deductible", "claim">>, <<"hip">>,
       <<"hip", "surgery">>, <<"knee">>, <<"knee", "claim">>, <<"knee", "surgery">>,
       <<"payable">>, <<"period">>, <<"surgery">>,
       <<"surgery", "waiting">>, <<"thank">>, <<"thank", "choosing">>, <<"waiting">>,
       <<"waiting", "period">> >>

Range(s) == {s[i] : i \in DOMAIN s}

\* The analyzer: drop stop words, then emit the unigrams and the bigrams of
\* what is left (with repetitions).
Ngrams(tokens) ==
    LET kept == SelectSeq(tokens, LAMBDA w : w \notin stop_words)
    IN  [i \in 1..Len(kept) |-> <<kept[i]>>]
          \o [i \in 1..(Len(kept) - 1) |-> <<kept[i], kept[i + 1]>>]

\* Number of occurrences of feature f in an analyzed text.
Tf(f, grams) == Cardinality({i \in DOMAIN grams : grams[i] = f})

\* Smoothed idf, ln((1 + n) / (1 + df)) + 1, in tenths; IdfTable[n][df].
IdfTable ==
    << <<10>>,
       <<14, 10>>,
       <<17, 13, 10>>,
       <<19, 15, 12, 10>>,
       <<21, 17, 14, 12, 10>>,
       <<23, 18, 16, 13, 12, 10>> >>

\* The vectorizer before any fit (transform raises NotFittedError).
Unfitted == [vocabulary_ |-> <<>>, idf_ |-> <<>>]

\* text_lower under the vectorizer's token_pattern.
Tokens(text) == TextFacts(text).tokens

\* The analyzer's output for each catalogue text.
Analyzed == [t \in Texts |-> Ngrams(Tokens(t))]

\* TfidfVectorizer.fit on raw_documents (texts): ok = FALSE is the
\* ValueError of an empty vocabulary, of max_df * n_doc < min_df, or of no
\* term left after pruning the terms whose document frequency exceeds
\* max_df * n_doc.  (The catalogue has fewer than max_features features, so
\* the max_features cut keeps them all.)
fit(raw_documents) ==
    LET n == Len(raw_documents)
        features == [i \in 1..n |-> Range(Analyzed[raw_documents[i]])]
        all == UNION {features[i] : i \in 1..n}
        df == [f \in all |-> Cardinality({i \in 1..n : f \in features[i]})]
        kept == {f \in all : 10 * df[f] <= 9 * n /\ df[f] >= 1}
        vocabulary == SelectSeq(Lexicon, LAMBDA f : f \in kept)
    IN  IF all = {} \/ 9 * n < 10 \/ kept = {}
        THEN [ok |-> FALSE, vectorizer |-> Unfitted]
        ELSE [ok |-> TRUE,
              vectorizer |->
                  [vocabulary_ |-> vocabulary,
                   idf_ |-> [j \in 1..Len(vocabulary) |-> IdfTable[n][df[vocabulary[j]]]]]]

\* TfidfVectorizer.transform of one analyzed text: its row over the
\* vocabulary's columns, tf * idf.  (The L2 normalisation of the row is left
\* out: cosine_similarity normalises both operands again, so no similarity
\* depends on it.)
transform(vectorizer, grams) ==
    [j \in 1..Len(vectorizer.vocabulary_) |->
        Tf(vectorizer.vocabulary_[j], grams) * vectorizer.idf_[j]]

\* TfidfVectorizer.fit_transform: on success the vectorizer object is
\* refitted in place and the document-term matrix (one row per text) returned.
fit_transform(raw_documents) ==
    LET f == fit(raw_documents)
    IN  [ok |-> f.ok,
         vectorizer |-> f.vectorizer,
         X |-> IF f.ok
               THEN [i \in 1..Len(raw_documents) |->
                        transform(f.vectorizer, Analyzed[raw_documents[i]])]
               ELSE <<>>]

(***************************************************************************)
(* The store.  self is the VectorStore object, disk the three pickle files *)
(* under vector_db/ (None: the file does not exist).  A file holds a copy  *)
(* of the value that was dumped into it.                                   *)
(***************************************************************************)
\* self right after the assignments of __init__, before _load_vectors.
NewStore == [vectorizer |-> Unfitted, vectors |-> None, documents |-> <<>>,
             is_fitted |-> FALSE]

NoFiles == [vectorizer_file |-> None, vectors_file |-> None, docs_file |-> None]

\* A file whose content cannot be unpickled.
Corrupt == <<"unreadable", "file">>
IsCorrupt(file) == Len(file) = 2

\* _save_vectors, lines 203-204, 207-208, 211-212: one dump each, of the
\* attribute as it is when the dump runs.
save_vectorizer(s, d) == [d EXCEPT !.vectorizer_file = Some(s.vectorizer)]
save_vectors(s, d) == [d EXCEPT !.vectors_file = Some(s.vectors)]
save_documents(s, d) == [d EXCEPT !.docs_file = Some(s.documents)]

\* _save_vectors: the three dumps, in the order vectorizer, vectors, documents.
_save_vectors(s, d) == save_documents(s, save_vectors(s, save_vectorizer(s, d)))

\* A _load_vectors whose exception handler keeps what was loaded before the
\* unreadable file.
_load_vectors_keeping_loaded(s, d) ==
    IF d.vectorizer_file # None /\ d.vectors_file # None /\ d.docs_file # None
    THEN IF IsCorrupt(d.vectorizer_file) THEN s
         ELSE IF IsCorrupt(d.vectors_file)
         THEN [s EXCEPT !.vectorizer = Value(d.vectorizer_file)]
         ELSE IF IsCorrupt(d.docs_file)
         THEN [s EXCEPT !.vectorizer = Value(d.vectorizer_file),
                        !.vectors = Value(d.vectors_file)]
         ELSE [vectorizer |-> Value(d.vectorizer_file),
               vectors |-> Value(d.vectors_file),
               documents |-> Value(d.docs_file), is_fitted |-> TRUE]
    ELSE s

\* A _load_vectors that loads the vectorizer and the documents but no matrix.
_load_vectors_without_matrix(s, d) ==
    IF d.vectorizer_file # None /\ d.vectors_file # None /\ d.docs_file # None
         /\ ~IsCorrupt(d.vectorizer_file) /\ ~IsCorrupt(d.vectors_file)
         /\ ~IsCorrupt(d.docs_file)
    THEN [vectorizer |-> Value(d.vectorizer_file), vectors |-> None,
          documents |-> Value(d.docs_file), is_fitted |-> TRUE]
    ELSE [s EXCEPT !.vectors = None, !.documents = <<>>, !.is_fitted = FALSE]

\* _load_vectors: all three files present -> load them in order (an unreadable
\* file raises, and the handler resets vectors and documents but keeps a
\* vectorizer already loaded); otherwise start fresh.
_load_vectors(s, d) ==
    IF d.vectorizer_file # None /\ d.vectors_file # None /\ d.docs_file # None
    THEN IF IsCorrupt(d.vectorizer_file)
         THEN [s EXCEPT !.vectors = None, !.documents = <<>>, !.is_fitted = FALSE]
         ELSE IF IsCorrupt(d.vectors_file) \/ IsCorrupt(d.docs_file)
         THEN [s EXCEPT !.vectorizer = Value(d.vectorizer_file), !.vectors = None,
                        !.documents = <<>>, !.is_fitted = FALSE]
         ELSE [vectorizer |-> Value(d.vectorizer_file),
               vectors |-> Value(d.vectors_file),
               documents |-> Value(d.docs_file), is_fitted |-> TRUE]
    ELSE [s EXCEPT !.vectors = None, !.documents = <<>>, !.is_fitted = FALSE]

\* VectorStore(): construct over the files found on disk.
VectorStoreInit(d) == _load_vectors(NewStore, d)

\* add_documents, line 40: self.documents = [].
add_reset(s) == [s EXCEPT !.documents = <<>>]

\* A filter loop that appends every chunk, relevant or not.
filtered_documents_unfiltered(documents) == documents

\* add_documents, lines 43-46: the chunks that pass the filter, in input order.
filtered_documents(documents) ==
    SelectSeq(documents, LAMBDA doc : _is_relevant_content(doc.text))

\* add_documents, line 55.
texts_of(filtered) == [i \in 1..Len(filtered) |-> filtered[i].text]

\* add_documents, line 58: self.documents = filtered_documents.
add_assign(s, filtered) == [s EXCEPT !.documents = filtered]

\* add_documents, line 61: fit_transform refits self.vectorizer in place ...
add_refit(s, ft) == [s EXCEPT !.vectorizer = ft.vectorizer]

\* ... and its result is assigned to self.vectors.
add_vectors(s, ft) == [s EXCEPT !.vectors = Some(ft.X)]

\* add_documents, line 62.
add_is_fitted(s) == [s EXCEPT !.is_fitted = TRUE]

\* add_documents, lines 61-62, when fit_transform returned ft.
add_fitted(s, ft) == add_is_fitted(add_vectors(add_refit(s, ft), ft))

\* An add_documents that merges the new batch into the indexed documents
\* instead of replacing them.
add_documents_merging(s, d, documents) ==
    LET filtered == s.documents \o filtered_documents(documents)
        ft == fit_transform(texts_of(filtered))
        s2 == add_assign(s, filtered)
        s3 == add_fitted(s2, ft)
    IN  IF filtered = <<>> THEN [self |-> s, disk |-> d, raised |-> FALSE]
        ELSE IF ~ft.ok THEN [self |-> s2, disk |-> d, raised |-> TRUE]
        ELSE [self |-> s3, disk |-> _save_vectors(s3, d), raised |-> FALSE]

\* add_documents as one call: the store and the files it leaves, and whether it
\* raised (fit_transform's ValueError, logged and re-raised at lines 69-71).
add_documents(s, d, documents) ==
    LET filtered == filtered_documents(documents)
        ft == fit_transform(texts_of(filtered))
        s1 == add_reset(s)
        s2 == add_assign(s1, filtered)
        s3 == add_fitted(s2, ft)
    IN  IF filtered = <<>> THEN [self |-> s1, disk |-> d, raised |-> FALSE]
        ELSE IF ~ft.ok THEN [self |-> s2, disk |-> d, raised |-> TRUE]
        ELSE [self |-> s3, disk |-> _save_vectors(s3, d), raised |-> FALSE]

\* The ways _save_vectors can fail: os.makedirs raises, or the open or the dump
\* of one of the three files raises.  The handler of lines 214-215 logs the
\* exception, so the files after the failing one are not written.
SaveFaults ==
    {"makedirs", "open_vectorizer", "dump_vectorizer", "open_vectors",
     "dump_vectors", "open_documents", "dump_documents"}

\* _save_vectors when fault strikes: open(..., 'wb') has truncated the file
\* whose dump fails, which leaves it unreadable.
_save_vectors_failing(s, d, fault) ==
    CASE fault \in {"makedirs", "open_vectorizer"} -> d
      [] fault = "dump_vectorizer" -> [d EXCEPT !.vectorizer_file = Corrupt]
      [] fault = "open_vectors" -> save_vectorizer(s, d)
      [] fault = "dump_vectors" ->
           [save_vectorizer(s, d) EXCEPT !.vectors_file = Corrupt]
      [] fault = "open_documents" -> save_vectors(s, save_vectorizer(s, d))
      [] fault = "dump_documents" ->
           [save_vectors(s, save_vectorizer(s, d)) EXCEPT !.docs_file = Corrupt]
      [] OTHER -> _save_vectors(s, d)

\* A line 65 out of which the failure of the save propagates.
save_outcome_raising(r, d, fault) ==
    IF ~r.raised /\ r.self.documents # <<>> /\ fault \in SaveFaults
    THEN [self |-> r.self, disk |-> _save_vectors_failing(r.self, d, fault),
          raised |-> TRUE, fault |-> fault]
    ELSE [self |-> r.self, disk |-> r.disk, raised |-> r.raised, fault |-> "none"]

\* Line 65 under a file system on which the save meets fault: r is what
\* add_documents leaves when the save succeeds, d the files before the call.
\* fault: the fault that struck, "none" when line 65 was not reached.
save_outcome(r, d, fault) ==
    IF ~r.raised /\ r.self.documents # <<>> /\ fault \in SaveFaults
    THEN [self |-> r.self, disk |-> _save_vectors_failing(r.self, d, fault),
          raised |-> FALSE, fault |-> fault]
    ELSE [self |-> r.self, disk |-> r.disk, raised |-> r.raised, fault |-> "none"]

\* add_documents as one call whose save meets fault.
add_documents_io(s, d, documents, fault) ==
    save_outcome(add_documents(s, d, documents), d, fault)

\* clear_all_documents, lines 181, 182, 183.
clear_documents(s) == [s EXCEPT !.documents = <<>>]
clear_vectors(s) == [s EXCEPT !.vectors = None]
clear_is_fitted(s) == [s EXCEPT !.is_fitted = FALSE]

\* A clear that forgets to drop the matrix.
clear_memory_keeping_vectors(s) == clear_is_fitted(clear_documents(s))

\* clear_all_documents, lines 181-183.
clear_memory(s) == clear_is_fitted(clear_vectors(clear_documents(s)))

\* clear_all_documents as one call (lines 187-189 remove the files that exist).
clear_all_documents(s, d) == [self |-> clear_memory(s), disk |-> NoFiles]

\* get_document_count.
get_document_count(s) == Len(s.documents)

(***************************************************************************)
(* Queries and search_documents.                                           *)
(***************************************************************************)
Q_KNEE == "knee cover"
Q_AMBULANCE == "ambulance charges"
Q_HIP == "hip 3-month"
Q_LIST == "ambulance,charges,payable"
Q_SURGERY == "surgery cover"
Q_PAYABLE == "ambulance charges payable"

Queries == {Q_KNEE, Q_AMBULANCE, Q_HIP, Q_LIST, Q_SURGERY, Q_PAYABLE}

\* A run of digits in a query and what follows it: suffix, the letters
\* attached to the digits before the next separator (lower-cased, "" if
\* none); sep, the one "-" or white-space character that follows ("" if
\* none); unit, which of year, yr, month, day the text then begins with
\* ("other": none of them).
Digits(suffix, sep, unit) == [suffix |-> suffix, sep |-> sep, unit |-> unit]

\* What _parse_structured_query and search_documents read off a query string:
\* numbers: the runs of digits;  medical, body, locations: the entries
\* of medical_terms, body_parts, location_terms occurring in query.lower();
\* tokens: the query under the vectorizer's token_pattern;
\* words: set(query.lower().split()).
\* No bigram that spans the join between the query and an appended term, or
\* between two appended terms, is a feature of a catalogue text.
QueryFacts(q) ==
    CASE q = Q_KNEE ->
           [numbers |-> {}, medical |-> {}, body |-> {"knee"},
            locations |-> {}, tokens |-> <<"knee", "cover">>,
            words |-> {"knee", "cover"}]
      [] q = Q_AMBULANCE ->
           [numbers |-> {}, medical |-> {}, body |-> {},
            locations |-> {}, tokens |-> <<"ambulance", "charges">>,
            words |-> {"ambulance", "charges"}]
      [] q = Q_HIP ->
           [numbers |-> {Digits("", "-", "month")}, medical |-> {}, body |-> {"hip"},
            locations |-> {}, tokens |-> <<"hip", "month">>,
            words |-> {"hip", "3-month"}]
      [] q = Q_LIST ->
           [numbers |-> {}, medical |-> {}, body |-> {},
            locations |-> {}, tokens |-> <<"ambulance", "charges", "payable">>,
            words |-> {"ambulance,charges,payable"}]
      [] q = Q_SURGERY ->
           [numbers |-> {}, medical |-> {"surgery"}, body |-> {},
            locations |-> {}, tokens |-> <<"surgery", "cover">>,
            words |-> {"surgery", "cover"}]
      [] q = Q_PAYABLE ->
           [numbers |-> {}, medical |-> {}, body |-> {},
            locations |-> {}, tokens |-> <<"ambulance", "charges", "payable">>,
            words |-> {"ambulance", "charges", "payable"}]

\* Line 140: re.search(r'(\d+)[M|F|m|f]?[-\s]?(?:year|yr)', query, re.IGNORECASE)
age_match(f) ==
    \E n \in f.numbers :
        /\ n.suffix \in {"", "m", "f", "|"}
        /\ n.sep \in {"", "-", " "}
        /\ n.unit \in {"year", "yr"}

\* Line 157: re.search(r'(\d+)[-\s]?(?:month|year|day)', query, re.IGNORECASE)
duration_match(f) ==
    \E n \in f.numbers :
        /\ n.suffix = ""
        /\ n.sep \in {"", "-", " "}
        /\ n.unit \in {"month", "year", "day"}

\* Lines 137-167 on what the query holds: the set behind list(set(terms)).
parsed_terms_of(f) ==
    (IF age_match(f) THEN {"age"} ELSE {})
      \cup f.medical
      \cup f.body
      \cup (IF duration_match(f) THEN {"waiting period", "policy duration"} ELSE {})
      \cup (IF f.locations # {} THEN {"location"} ELSE {})

\* _parse_structured_query.
_parse_structured_query(query) == parsed_terms_of(QueryFacts(query))

\* The expansion terms in one fixed order, and the tokens of each.
ExpansionTerms ==
    <<"age", "surgery", "operation", "treatment", "procedure", "therapy", "knee",
      "hip", "heart", "eye", "spine", "shoulder", "ankle", "waiting period",
      "policy duration", "location">>

TermTokens(term) ==
    CASE term = "waiting period" -> <<"waiting", "period">>
      [] term = "policy duration" -> <<"policy", "duration">>
      [] OTHER -> <<term>>

RECURSIVE Flatten(_)
Flatten(seqs) == IF seqs = <<>> THEN <<>> ELSE Head(seqs) \o Flatten(Tail(seqs))

\* Line 84: the tokens of f"{query} {' '.join(parsed_terms)}".
expanded_query(query, parsed_terms) ==
    LET joined == SelectSeq(ExpansionTerms, LAMBDA term : term \in parsed_terms)
    IN  QueryFacts(query).tokens
          \o Flatten([i \in 1..Len(joined) |-> TermTokens(joined[i])])

RECURSIVE SqrtSearch(_, _, _)
SqrtSearch(n, lo, hi) ==
    IF lo = hi THEN lo
    ELSE LET mid == (lo + hi + 1) \div 2
         IN  IF mid * mid <= n THEN SqrtSearch(n, mid, hi)
             ELSE SqrtSearch(n, lo, mid - 1)

\* floor(sqrt(n)).
ISqrt(n) == SqrtSearch(n, 0, 46340)

RECURSIVE Sum(_)
Sum(xs) == IF xs = <<>> THEN 0 ELSE Head(xs) + Sum(Tail(xs))

Dot(a, b) == Sum([j \in 1..Len(a) |-> a[j] * b[j]])

Min(a, b) == IF a < b THEN a ELSE b

\* The non-zero entries of a row, and whether they are all the same.
Support(row) == {j \in 1..Len(row) : row[j] # 0}

Flat(row) == \A i, j \in Support(row) : row[i] = row[j]

\* cosine_similarity normalises both rows to unit length and takes their dot
\* product, in IEEE-754 doubles.  For two rows with the same m flat non-zero
\* entries the result is mathematically 1; evaluated in doubles (x / sqrt(sum
\* of x * x) per entry, then the sum of the m products) it comes out above 1.0,
\* at 1.0000000000000002 or more, for these m.
RoundsAboveOne == {2, 5, 6, 7, 8, 9, 11}

\* sklearn's cosine_similarity(query_vector, vectors)[0], in thousandths
\* (1001: a double above 1.0): ok = FALSE is the ValueError of operands with
\* different numbers of columns.
cosine_similarity(query_vector, vectors) ==
    LET cos(row) ==
            LET qq == Dot(query_vector, query_vector)
                rr == Dot(row, row)
            IN  IF qq = 0 \/ rr = 0 THEN 0
                ELSE IF /\ Support(row) = Support(query_vector)
                        /\ Flat(row) /\ Flat(query_vector)
                        /\ Cardinality(Support(row)) \in RoundsAboveOne
                THEN 1001
                ELSE (1000 * Dot(query_vector, row)) \div ISqrt(qq * rr)
    IN  IF \E i \in 1..Len(vectors) : Len(vectors[i]) # Len(query_vector)
        THEN [ok |-> FALSE, similarities |-> <<>>]
        ELSE [ok |-> TRUE,
              similarities |-> [i \in 1..Len(vectors) |-> cos(vectors[i])]]

\* numpy's argsort (default kind, not stable): every ascending order of the
\* indices, equal similarities in any order.
Argsorts(similarities) ==
    LET n == Len(similarities)
    IN  {p \in [1..n -> 1..n] :
            /\ \A i, j \in 1..n : i # j => p[i] # p[j]
            /\ \A i \in 1..(n - 1) : similarities[p[i]] <= similarities[p[i + 1]]}

\* numpy's argsort as one implementation computes it: a function of the
\* array.  The implementation b places equal values in ascending order of
\* their indices (a stable sort) or in descending order.
argsort(similarities, b) ==
    CHOOSE p \in Argsorts(similarities) :
        \A i, j \in 1..Len(similarities) :
            (i < j /\ similarities[p[i]] = similarities[p[j]])
                => IF b = "ascending" THEN p[i] < p[j] ELSE p[i] > p[j]

\* A slice that takes the whole order instead of its last k entries.
top_indices_whole(order, k) == [i \in 1..Len(order) |-> order[Len(order) + 1 - i]]

\* Line 93: argsort()[-k:][::-1].
top_indices(order, k) ==
    LET n == Len(order)
        m == Min(k, n)
    IN  [i \in 1..m |-> order[n + 1 - i]]

\* The similarity floor of line 97, 0.01.
Floor == 10

\* The indices the loop of lines 96-117 keeps, and whether they depend on
\* how argsort orders equal values.
candidates(order, k, similarities) ==
    SelectSeq(top_indices(order, k), LAMBDA idx : similarities[idx] > Floor)

TieMatters(similarities, k) ==
    Cardinality({candidates(order, k, similarities) :
                    order \in Argsorts(similarities)}) > 1

\* Lines 98-115: the copy of a document with its boosted score.
scored(doc, similarity, query, parsed_terms) ==
    LET f == TextFacts(doc.text)
        hits == Cardinality(parsed_terms \cap f.contains)
        Boost13[n \in 0..Len(ExpansionTerms)] ==
            IF n = 0 THEN similarity ELSE Min(1000, (Boost13[n - 1] * 13) \div 10)
        common_words == QueryFacts(query).words \cap f.words
        boost_factor == Min(15, 10 + Cardinality(common_words))
        boosted == IF common_words # {}
                   THEN Min(1000, (Boost13[hits] * boost_factor) \div 10)
                   ELSE Boost13[hits]
    IN  [text |-> doc.text, similarity_score |-> boosted]

\* list.sort(key=similarity_score, reverse=True): stable, descending.
RECURSIVE SortByScore(_)
SortByScore(results) ==
    IF results = <<>> THEN <<>>
    ELSE LET top == CHOOSE i \in 1..Len(results) :
                       /\ \A j \in 1..Len(results) :
                            results[j].similarity_score <= results[i].similarity_score
                       /\ \A j \in 1..(i - 1) :
                            results[j].similarity_score < results[i].similarity_score
         IN  <<results[top]>>
               \o SortByScore([j \in 1..(Len(results) - 1) |->
                                  IF j < top THEN results[j] ELSE results[j + 1]])

\* A loop without the test of line 97.
RECURSIVE collect_without_floor(_, _, _, _, _)
collect_without_floor(indices, similarities, documents, query, parsed_terms) ==
    IF indices = <<>> THEN [ok |-> TRUE, results |-> <<>>]
    ELSE LET idx == Head(indices)
             rest == collect_without_floor(Tail(indices), similarities, documents,
                                           query, parsed_terms)
         IN  IF idx > Len(documents) THEN [ok |-> FALSE, results |-> <<>>]
             ELSE [ok |-> rest.ok,
                   results |-> IF rest.ok
                               THEN <<scored(documents[idx], similarities[idx],
                                             query, parsed_terms)>>
                                      \o rest.results
                               ELSE <<>>]

\* The loop of lines 96-117 over top_indices: ok = FALSE is the IndexError of
\* self.documents[idx].
RECURSIVE collect(_, _, _, _, _)
collect(indices, similarities, documents, query, parsed_terms) ==
    IF indices = <<>> THEN [ok |-> TRUE, results |-> <<>>]
    ELSE LET idx == Head(indices)
             rest == collect(Tail(indices), similarities, documents, query,
                             parsed_terms)
         IN  IF similarities[idx] > Floor
             THEN IF idx > Len(documents) THEN [ok |-> FALSE, results |-> <<>>]
                  ELSE [ok |-> rest.ok,
                        results |-> IF rest.ok
                                    THEN <<scored(documents[idx], similarities[idx],
                                                  query, parsed_terms)>>
                                           \o rest.results
                                    ELSE <<>>]
             ELSE rest

\* The .size of the sparse matrix: its number of stored (non-zero) entries.
size(matrix) ==
    Sum([i \in 1..Len(matrix) |->
            Cardinality({j \in 1..Len(matrix[i]) : matrix[i][j] # 0})])

\* A loop that scores self.documents[idx] itself instead of a copy: the stored
\* documents of the results carry their scores.
documents_after_search_uncopied(documents, results) ==
    [idx \in DOMAIN documents |->
        IF \E i \in DOMAIN results : results[i].text = documents[idx].text
        THEN CHOOSE doc \in Range(results) : doc.text = documents[idx].text
        ELSE documents[idx]]

\* self.documents after a search that returned results: line 98 copies
\* self.documents[idx] and lines 99-115 write similarity_score into the copy,
\* results is a new list, and no line of 73-129 assigns an attribute of self.
documents_after_search(documents, results) == documents

\* An argsort of which nothing is known but numpy's contract.
AnyBuild == "any"

\* search_documents as one call under the argsort implementation b: the set
\* of outcomes it can have.  raised: the AttributeError of
\* self.vectors.size on None, raised at line 77 outside the try; every
\* exception inside the try returns [].
search_with(s, query, k, b) ==
    LET parsed_terms == _parse_structured_query(query)
        query_vector == transform(s.vectorizer,
                                  Ngrams(expanded_query(query, parsed_terms)))
        cs == cosine_similarity(query_vector, Value(s.vectors))
        outcome(order) ==
            LET c == collect(top_indices(order, k), cs.similarities, s.documents,
                             query, parsed_terms)
            IN  [ret |-> IF c.ok THEN SortByScore(c.results) ELSE <<>>,
                 raised |-> FALSE]
    IN  IF s.vectors = None THEN {[ret |-> <<>>, raised |-> TRUE]}
        ELSE IF size(Value(s.vectors)) = 0 THEN {[ret |-> <<>>, raised |-> FALSE]}
        ELSE IF s.vectorizer = Unfitted \/ ~cs.ok THEN {[ret |-> <<>>, raised |-> FALSE]}
        ELSE {outcome(order) :
                 order \in IF b = AnyBuild THEN Argsorts(cs.similarities)
                           ELSE {argsort(cs.similarities, b)}}

\* search_documents as one call: every outcome it can have, over all
\* implementations of argsort.
search_documents(s, query, k) == search_with(s, query, k, AnyBuild)

\* A search_documents whose argsort orders equal values anew in every call.
search_documents_any_order(b, s, query, k) == search_documents(s, query, k)

\* search_documents as one call under the argsort implementation b: its one
\* outcome, as a set.
search_documents_on(b, s, query, k) == search_with(s, query, k, b)

(***************************************************************************)
(* State.                                                                  *)
(***************************************************************************)
VARIABLES
    self,   \* the VectorStore object: vectorizer, vectors, documents, is_fitted
    disk,   \* vector_db/: vectorizer_file, vectors_file, docs_file
    last,   \* the call that completed last, as its caller saw it
    pc,     \* per request thread: the line its call is at ("idle": no call)
    frame,  \* per request thread: the arguments and locals of its call
    epoch,  \* the store and files when the running calls began, and those calls
    begun,  \* number of calls begun by the request threads
    build   \* the tie order of this installation's argsort, None until a
            \* search result first depends on it

threadvars == <<pc, frame, epoch, begun>>

vars == <<self, disk, last, pc, frame, epoch, begun, build>>

\* Most chunks in a batch handed to add_documents, largest k of a search, and
\* most calls the request threads begin in one run.
MaxBatch == 3
MaxK == 2
MaxCalls == 3
\* Most calls that overlap before the request threads are all idle again.
MaxOverlap == 2

\* The chunk texts of a catalogue of files, in the order the chunker emits them.
Files ==
    {<<KNEE, HIP, THANKS, AMBULANCE>>,
     <<KNEE, THANKS, HIP>>,
     <<HIP, KNEE, DEDUCTIBLE>>,
     <<AMBULANCE, DEDUCTIBLE, KNEE>>,
     <<THANKS, KNEE, HIP>>,
     <<KNEE, KNEE, HIP>>,
     <<REPEAT, AMBULANCE>>}

\* A batch: the chunk dicts of a file of at most MaxBatch chunks (a catalogue
\* file cut after its first n chunks; n = 0 is a file without text).  The
\* store reads a chunk's text only (the metadata dict rides along unread).
BatchesOf(files) ==
    UNION {{[i \in 1..n |-> [text |-> file[i]]] : file \in {f \in files : Len(f) >= n}}
              : n \in 0..MaxBatch}

Batches == BatchesOf(Files)

\* The files the concurrent request threads upload.
ConcFiles == {<<KNEE, THANKS, HIP>>, <<AMBULANCE, DEDUCTIBLE, KNEE>>}

ConcBatches == BatchesOf(ConcFiles)

\* The files uploaded while the file system can fail.
IOFiles == {<<KNEE, THANKS, HIP>>, <<AMBULANCE, DEDUCTIBLE>>}

IOBatches == BatchesOf(IOFiles)

\* The queries of the concurrent request threads.
ConcQueries == {Q_KNEE, Q_AMBULANCE, Q_HIP}

\* What a call saw of the store when it began.
Before(s) == [documents |-> s.documents, ready |-> s.vectors # None]

\* The record of a completed call: its name and arguments, what it returned
\* (ret: search results; count: get_document_count), whether it raised, the
\* fault its save met, and the store as it was when the call began.
Call(op, documents, query, k, ret, count, raised, before) ==
    [op |-> op, documents |-> documents, query |-> query, k |-> k, ret |-> ret,
     count |-> count, raised |-> raised, fault |-> "none", before |-> before]

\* The request threads of the Flask server.
Threads == {1, 2}

\* A thread that runs no call.
NoFrame ==
    [op |-> "", documents |-> <<>>, query |-> "", k |-> 0, filtered |-> <<>>,
     files |-> <<>>, query_vector |-> <<>>, similarities |-> <<>>,
     indices |-> <<>>, results |-> <<>>, before |-> Before(NewStore),
     seen |-> [vectorizer |-> None, vectors |-> None, documents |-> {}]]

NoEpoch == [self |-> NewStore, disk |-> NoFiles, calls |-> <<>>]

\* The argsort implementations.
Builds == {"ascending", "descending"}

\* The implementations this installation can still turn out to have.
BuildsNow == IF build = None THEN Builds ELSE {Value(build)}

Init ==
    /\ disk = NoFiles
    /\ self = VectorStoreInit(NoFiles)
    /\ last = Call("__init__", <<>>, "", 0, <<>>, 0, FALSE, Before(NewStore))
    /\ pc = [t \in Threads |-> "idle"]
    /\ frame = [t \in Threads |-> NoFrame]
    /\ epoch = NoEpoch
    /\ begun = 0
    /\ build = None

(***************************************************************************)
(* The calls of the store, one call at a time.                             *)
(***************************************************************************)
\* vector_store.add_documents(chunks)
AddDocuments ==
    \E documents \in Batches :
        LET r == add_documents(self, disk, documents)
        IN  /\ self' = r.self
            /\ disk' = r.disk
            /\ last' = Call("add_documents", documents, "", 0, <<>>, 0, r.raised,
                            Before(self))
            /\ UNCHANGED <<threadvars, build>>

\* vector_store.search_documents(query, k)
SearchDocuments ==
    \E query \in Queries, k \in 1..MaxK :
        LET tied == Cardinality(search_documents(self, query, k)) > 1
        IN  \E b \in (IF tied THEN BuildsNow ELSE {CHOOSE c \in BuildsNow : TRUE}) :
                \E r \in search_documents_on(b, self, query, k) :
                    /\ last' = Call("search_documents", <<>>, query, k, r.ret, 0,
                                    r.raised, Before(self))
                    /\ build' = IF tied THEN Some(b) ELSE build
                    /\ self' = [self EXCEPT !.documents =
                                  documents_after_search(@, r.ret)]
                    /\ UNCHANGED <<disk, threadvars>>

\* vector_store.get_document_count()
GetDocumentCount ==
    /\ last' = Call("get_document_count", <<>>, "", 0, <<>>,
                    get_document_count(self), FALSE, Before(self))
    /\ UNCHANGED <<self, disk, threadvars, build>>

\* vector_store.clear_all_documents()
ClearAllDocuments ==
    LET r == clear_all_documents(self, disk)
    IN  /\ self' = r.self
        /\ disk' = r.disk
        /\ last' = Call("clear_all_documents", <<>>, "", 0, <<>>, 0, FALSE,
                        Before(self))
        /\ UNCHANGED <<threadvars, build>>

\* A process restart: a new VectorStore() over the files on disk.
Restart ==
    /\ self' = VectorStoreInit(disk)
    /\ last' = Call("__init__", <<>>, "", 0, <<>>, 0, FALSE, Before(self))
    /\ UNCHANGED <<disk, threadvars, build>>

Next ==
    \/ AddDocuments
    \/ SearchDocuments
    \/ GetDocumentCount
    \/ ClearAllDocuments
    \/ Restart

Spec == Init /\ [][Next]_vars

(***************************************************************************)
(* The calls of the store over a file system that can fail (SpecIO).       *)
(***************************************************************************)
\* vector_store.add_documents(chunks), its save meeting fault or none
AddDocumentsIO ==
    \E documents \in IOBatches :
        LET saved == add_documents(self, disk, documents)
        IN  \E fault \in SaveFaults \cup {"none"} :
                LET r == save_outcome(saved, disk, fault)
                IN  /\ r.fault = fault
                    /\ self' = r.self
                    /\ disk' = r.disk
                    /\ last' = [Call("add_documents", documents, "", 0, <<>>, 0,
                                     r.raised, Before(self))
                                    EXCEPT !.fault = r.fault]
                    /\ UNCHANGED <<threadvars, build>>

NextIO ==
    \/ AddDocumentsIO
    \/ SearchDocuments
    \/ GetDocumentCount
    \/ ClearAllDocuments
    \/ Restart

SpecIO == Init /\ [][NextIO]_vars

(***************************************************************************)
(* The same calls run by concurrent request threads, one statement of the  *)
(* handler at a time (the store has no lock).  pc names the source line    *)
(* the thread executes next.                                               *)
(***************************************************************************)
Running == {t \in Threads : pc[t] # "idle"}

\* A request is handed to the first idle thread, which enters the handler.
Begin(t, op, documents, query, k, line) ==
    /\ pc[t] = "idle"
    /\ \A u \in Threads : u < t => pc[u] # "idle"
    /\ begun < MaxCalls
    /\ Running = {} \/ Len(epoch.calls) < MaxOverlap
    /\ pc' = [pc EXCEPT ![t] = line]
    /\ frame' = [frame EXCEPT ![t] =
                    [NoFrame EXCEPT !.op = op, !.documents = documents,
                                    !.query = query, !.k = k,
                                    !.before = Before(self)]]
    /\ epoch' = LET c == [thread |-> t, op |-> op, documents |-> documents,
                          query |-> query, k |-> k]
                IN  IF Running = {}
                    THEN [self |-> self, disk |-> disk, calls |-> <<c>>]
                    ELSE [epoch EXCEPT !.calls = Append(@, c)]
    /\ begun' = begun + 1
    /\ UNCHANGED <<self, disk, last, build>>

\* A thread leaves its handler, by return or by exception.
Return(t, ret, raised) ==
    /\ pc' = [pc EXCEPT ![t] = "idle"]
    /\ frame' = [frame EXCEPT ![t] = NoFrame]
    /\ last' = Call(frame[t].op, frame[t].documents, frame[t].query, frame[t].k,
                    ret, 0, raised, frame[t].before)
    /\ UNCHANGED <<epoch, begun, build>>

\* A thread moves on to another line with locals f.
Goto(t, line, f) ==
    /\ pc' = [pc EXCEPT ![t] = line]
    /\ frame' = [frame EXCEPT ![t] = f]
    /\ UNCHANGED <<last, epoch, begun, build>>

BeginAdd(t) ==
    \E documents \in ConcBatches : Begin(t, "add_documents", documents, "", 0, "add_40")

\* line 40
Add40(t) ==
    /\ pc[t] = "add_40"
    /\ self' = add_reset(self)
    /\ UNCHANGED disk
    /\ Goto(t, "add_43", frame[t])

\* lines 43-52
Add43(t) ==
    /\ pc[t] = "add_43"
    /\ UNCHANGED <<self, disk>>
    /\ LET filtered == filtered_documents(frame[t].documents)
       IN  IF filtered = <<>> THEN Return(t, <<>>, FALSE)
           ELSE Goto(t, "add_58", [frame[t] EXCEPT !.filtered = filtered])

\* lines 55-58
Add58(t) ==
    /\ pc[t] = "add_58"
    /\ self' = add_assign(self, frame[t].filtered)
    /\ UNCHANGED disk
    /\ Goto(t, "add_61", frame[t])

\* line 61, the call of fit_transform: it raises, or refits the vectorizer
Add61(t) ==
    /\ pc[t] = "add_61"
    /\ UNCHANGED disk
    /\ LET ft == fit_transform(texts_of(frame[t].filtered))
       IN  IF ft.ok
           THEN self' = add_refit(self, ft) /\ Goto(t, "add_61_assign", frame[t])
           ELSE UNCHANGED self /\ Return(t, <<>>, TRUE)

\* line 61, the assignment of the result to self.vectors
Add61Assign(t) ==
    /\ pc[t] = "add_61_assign"
    /\ self' = add_vectors(self, fit_transform(texts_of(frame[t].filtered)))
    /\ UNCHANGED disk
    /\ Goto(t, "add_62", frame[t])

\* line 62
Add62(t) ==
    /\ pc[t] = "add_62"
    /\ self' = add_is_fitted(self)
    /\ UNCHANGED disk
    /\ Goto(t, "save_203", frame[t])

\* lines 203-204
Save203(t) ==
    /\ pc[t] = "save_203"
    /\ disk' = save_vectorizer(self, disk)
    /\ UNCHANGED self
    /\ Goto(t, "save_207", frame[t])

\* lines 207-208
Save207(t) ==
    /\ pc[t] = "save_207"
    /\ disk' = save_vectors(self, disk)
    /\ UNCHANGED self
    /\ Goto(t, "save_211", frame[t])

\* lines 211-212, and the return of add_documents
Save211(t) ==
    /\ pc[t] = "save_211"
    /\ disk' = save_documents(self, disk)
    /\ UNCHANGED self
    /\ Return(t, <<>>, FALSE)

BeginClear(t) == Begin(t, "clear_all_documents", <<>>, "", 0, "clear_181")

\* line 181
Clear181(t) ==
    /\ pc[t] = "clear_181"
    /\ self' = clear_documents(self)
    /\ UNCHANGED disk
    /\ Goto(t, "clear_182", frame[t])

\* line 182
Clear182(t) ==
    /\ pc[t] = "clear_182"
    /\ self' = clear_vectors(self)
    /\ UNCHANGED disk
    /\ Goto(t, "clear_183", frame[t])

\* line 183, and the list of line 187
Clear183(t) ==
    /\ pc[t] = "clear_183"
    /\ self' = clear_is_fitted(self)
    /\ UNCHANGED disk
    /\ Goto(t, "clear_188",
            [frame[t] EXCEPT !.files = <<"vectorizer_file", "vectors_file", "docs_file">>])

\* line 188: os.path.exists of the next file; past the last file, return
Clear188(t) ==
    /\ pc[t] = "clear_188"
    /\ UNCHANGED <<self, disk>>
    /\ IF frame[t].files = <<>> THEN Return(t, <<>>, FALSE)
       ELSE IF disk[Head(frame[t].files)] # None THEN Goto(t, "clear_189", frame[t])
       ELSE Goto(t, "clear_188", [frame[t] EXCEPT !.files = Tail(@)])

\* line 189: os.remove; a file removed in the meantime is a FileNotFoundError,
\* which the handler of lines 192-193 logs
Clear189(t) ==
    /\ pc[t] = "clear_189"
    /\ UNCHANGED self
    /\ IF disk[Head(frame[t].files)] = None
       THEN UNCHANGED disk /\ Return(t, <<>>, FALSE)
       ELSE /\ disk' = [disk EXCEPT ![Head(frame[t].files)] = None]
            /\ Goto(t, "clear_188", [frame[t] EXCEPT !.files = Tail(@)])

BeginSearch(t) ==
    \E query \in ConcQueries, k \in 1..MaxK :
        Begin(t, "search_documents", <<>>, query, k, "search_77")

\* lines 77-79
Search77(t) ==
    /\ pc[t] = "search_77"
    /\ UNCHANGED <<self, disk>>
    /\ IF self.vectors = None THEN Return(t, <<>>, TRUE)
       ELSE IF size(Value(self.vectors)) = 0 THEN Return(t, <<>>, FALSE)
       ELSE Goto(t, "search_87", frame[t])

\* lines 83-87
Search87(t) ==
    /\ pc[t] = "search_87"
    /\ UNCHANGED <<self, disk>>
    /\ IF self.vectorizer = Unfitted THEN Return(t, <<>>, FALSE)
       ELSE Goto(t, "search_90",
                 [frame[t] EXCEPT
                    !.query_vector =
                        transform(self.vectorizer,
                                  Ngrams(expanded_query(frame[t].query,
                                            _parse_structured_query(frame[t].query)))),
                    !.seen.vectorizer = Some(self.vectorizer)])

\* lines 90-93
Search90(t) ==
    /\ pc[t] = "search_90"
    /\ UNCHANGED <<self, disk>>
    /\ IF self.vectors = None THEN Return(t, <<>>, FALSE)
       ELSE LET cs == cosine_similarity(frame[t].query_vector, Value(self.vectors))
            IN  IF ~cs.ok THEN Return(t, <<>>, FALSE)
                ELSE \E b \in BuildsNow :
                        /\ pc' = [pc EXCEPT ![t] = "search_96"]
                        /\ frame' =
                             [frame EXCEPT ![t] =
                                [frame[t] EXCEPT
                                   !.similarities = cs.similarities,
                                   !.indices =
                                       top_indices(argsort(cs.similarities, b),
                                                   frame[t].k),
                                   !.seen.vectors = self.vectors]]
                        /\ build' = IF TieMatters(cs.similarities, frame[t].k)
                                     THEN Some(b) ELSE build
                        /\ UNCHANGED <<last, epoch, begun>>

\* lines 96-117, one iteration
Search96(t) ==
    /\ pc[t] = "search_96"
    /\ UNCHANGED <<self, disk>>
    /\ LET f == frame[t]
       IN  IF f.indices = <<>> THEN Goto(t, "search_122", f)
           ELSE IF f.similarities[Head(f.indices)] <= Floor
           THEN Goto(t, "search_96", [f EXCEPT !.indices = Tail(@)])
           ELSE IF Head(f.indices) > Len(self.documents) THEN Return(t, <<>>, FALSE)
           ELSE Goto(t, "search_96",
                     [f EXCEPT
                        !.indices = Tail(@),
                        !.results =
                            Append(@, scored(self.documents[Head(f.indices)],
                                             f.similarities[Head(f.indices)], f.query,
                                             _parse_structured_query(f.query))),
                        !.seen.documents = @ \cup {self.documents}])

\* lines 122-125
Search122(t) ==
    /\ pc[t] = "search_122"
    /\ UNCHANGED <<self, disk>>
    /\ Return(t, SortByScore(frame[t].results), FALSE)

NextConc ==
    \E t \in Threads :
        \/ BeginAdd(t)
        \/ Add40(t)
        \/ Add43(t)
        \/ Add58(t)
        \/ Add61(t)
        \/ Add61Assign(t)
        \/ Add62(t)
        \/ Save203(t)
        \/ Save207(t)
        \/ Save211(t)
        \/ BeginClear(t)
        \/ Clear181(t)
        \/ Clear182(t)
        \/ Clear183(t)
        \/ Clear188(t)
        \/ Clear189(t)
        \/ BeginSearch(t)
        \/ Search77(t)
        \/ Search87(t)
        \/ Search90(t)
        \/ Search96(t)
        \/ Search122(t)

SpecConc == Init /\ [][NextConc]_vars

(***************************************************************************)
(* The upload handler of app.py over PDF files that can fail to extract    *)
(* (SpecUpload).  A PDF is whether fitz.open accepts it and its pages; a   *)
(* page is the texts of the chunks lines 25-34 of document_processor.py    *)
(* make of it, or None when get_text raises on it.  A file name is its     *)
(* parts between dots.                                                     *)
(***************************************************************************)
\* app.py line 32.
ALLOWED_EXTENSIONS == {"pdf"}

\* str.lower on the extensions of the catalogue.
lower(ext) == IF ext = "PDF" THEN "pdf" ELSE ext

\* app.py lines 59-60.
allowed_file(filename) ==
    Len(filename) >= 2 /\ lower(filename[Len(filename)]) \in ALLOWED_EXTENSIONS

\* process_pdf, lines 23-34: the chunks of the pages up to the first page
\* whose text cannot be read (ok = FALSE: get_text raised).
RECURSIVE process_pages(_)
process_pages(pages) ==
    IF pages = <<>> THEN [ok |-> TRUE, chunks |-> <<>>]
    ELSE IF Head(pages) = None THEN [ok |-> FALSE, chunks |-> <<>>]
    ELSE LET rest == process_pages(Tail(pages))
         IN  [ok |-> rest.ok,
              chunks |-> [i \in 1..Len(Value(Head(pages))) |->
                             [text |-> Value(Head(pages))[i]]] \o rest.chunks]

\* document_processor.process_pdf, lines 13-48: the chunks of all pages, or
\* the exception of fitz.open or get_text re-raised at line 42 with no chunks
\* returned.
process_pdf(pdf) ==
    LET r == process_pages(pdf.pages)
    IN  IF pdf.opens /\ r.ok THEN [raised |-> FALSE, chunks |-> r.chunks]
        ELSE [raised |-> TRUE, chunks |-> <<>>]

\* Lines 99-102: the loop state r after add_documents returned added for the
\* file of that name ("index": add_documents raised at line 99).
indexed(r, filename, added) ==
    IF added.raised
    THEN [r EXCEPT !.self = added.self, !.disk = added.disk, !.error = "index"]
    ELSE [r EXCEPT !.self = added.self, !.disk = added.disk,
                   !.uploaded_files = Append(@, filename)]

\* A loop that adds the chunks of each file to those of the files before it.
processed_merging(r, file, extracted) ==
    IF extracted.raised THEN [r EXCEPT !.error = "extraction"]
    ELSE indexed(r, file.filename,
                 add_documents_merging(r.self, r.disk, extracted.chunks))

\* Lines 96-102: the loop state r after process_pdf returned extracted for
\* file ("extraction": process_pdf raised at line 96).
processed(r, file, extracted) ==
    IF extracted.raised THEN [r EXCEPT !.error = "extraction"]
    ELSE indexed(r, file.filename, add_documents(r.self, r.disk, extracted.chunks))

\* One pass of the loop of app.py lines 87-102 for file, from the state r the
\* passes before it left (error "none": the loop goes on).
upload_file(r, file) ==
    IF r.error # "none" THEN r
    ELSE IF file.filename = <<>> \/ ~allowed_file(file.filename) THEN r
    ELSE processed(r, file, process_pdf(file.pdf))

\* The loop of app.py lines 87-102 over files from the cleared store.
upload_loop(cleared, files) ==
    LET pass[n \in 0..Len(files)] ==
            IF n = 0
            THEN [self |-> cleared.self, disk |-> cleared.disk, error |-> "none",
                  uploaded_files |-> <<>>]
            ELSE upload_file(pass[n - 1], files[n])
    IN  pass[Len(files)]

\* Lines 104-114: the response to the loop state r (500 from the except of
\* line 112, 400 of line 105, else 200).
response(r) ==
    [self |-> r.self, disk |-> r.disk, error |-> r.error,
     uploaded_files |-> r.uploaded_files,
     status |-> IF r.error # "none" THEN 500
                ELSE IF r.uploaded_files = <<>> THEN 400 ELSE 200]

\* upload_files, app.py lines 66-114, for a request that has files: the store
\* cleared at line 79, the loop and the response.
upload_files(s, d, files) == response(upload_loop(clear_all_documents(s, d), files))

\* The files of the upload requests.
POLICY == [filename |-> <<"policy", "pdf">>,
           pdf |-> [opens |-> TRUE, pages |-> <<Some(<<KNEE>>), Some(<<HIP, THANKS>>)>>]]
RIDER == [filename |-> <<"rider", "PDF">>,
          pdf |-> [opens |-> TRUE, pages |-> <<Some(<<AMBULANCE, DEDUCTIBLE>>)>>]]
MALFORMED == [filename |-> <<"scan", "pdf">>, pdf |-> [opens |-> FALSE, pages |-> <<>>]]
TORN == [filename |-> <<"torn", "pdf">>,
         pdf |-> [opens |-> TRUE, pages |-> <<Some(<<DEDUCTIBLE, KNEE>>), None>>]]
NOTES == [filename |-> <<"notes", "txt">>,
          pdf |-> [opens |-> FALSE, pages |-> <<>>]]

UploadFiles == {POLICY, RIDER, MALFORMED, TORN, NOTES}

\* Largest number of files in one upload request.
MaxFiles == 2

Uploads == UNION {[1..n -> UploadFiles] : n \in 1..MaxFiles}

\* The record of a completed upload request.
UploadCall(files, r, before) ==
    [op |-> "upload_files", documents |-> <<>>, query |-> "", k |-> 0, ret |-> <<>>,
     count |-> 0, raised |-> FALSE, fault |-> "none", before |-> before,
     files |-> files, status |-> r.status, error |-> r.error,
     uploaded_files |-> r.uploaded_files]

\* POST /upload
Upload ==
    \E files \in Uploads :
        LET r == upload_files(self, disk, files)
        IN  /\ self' = r.self
            /\ disk' = r.disk
            /\ last' = UploadCall(files, r, Before(self))
            /\ UNCHANGED <<threadvars, build>>

NextUpload ==
    \/ Upload
    \/ SearchDocuments
    \/ GetDocumentCount

SpecUpload == Init /\ [][NextUpload]_vars

(***************************************************************************)
(* The page steps of process_pdf, document_processor.py lines 25-34        *)
(* (SpecChunk).  A text is a sequence of items: a word (a run of len       *)
(* characters that are neither white space nor digits, ends: its last      *)
(* character is one of . ! ?), a white-space character, a run of digits,   *)
(* or a "Page <d> of <d>" header.                                          *)
(***************************************************************************)
\* document_processor.py line 10.
chunk_size == 1000

\* len(text)
Length(text) == Sum([i \in 1..Len(text) |-> text[i].len])

\* The items of text at the positions of idxs, in their order.
Pick(text, idxs) ==
    [k \in 1..Cardinality(idxs) |->
        text[CHOOSE i \in idxs : Cardinality({j \in idxs : j < i}) = k - 1]]

IsSpace(item) == item.kind = "space"

ONE_SPACE == [kind |-> "space", len |-> 1, ends |-> FALSE]

\* Line 54, re.sub(r'\s+', ' ', text): every run of white space becomes one
\* space.
collapse_whitespace(text) ==
    Pick([i \in DOMAIN text |-> IF IsSpace(text[i]) THEN ONE_SPACE ELSE text[i]],
         {i \in DOMAIN text : ~(IsSpace(text[i]) /\ i > 1 /\ IsSpace(text[i - 1]))})

\* Line 57, re.sub(r'Page \d+ of \d+', '', text): a header goes, with the
\* digits that directly follow it (its last \d+ takes them).
remove_headers(text) ==
    Pick(text,
         {i \in DOMAIN text :
             /\ text[i].kind # "header"
             /\ ~(/\ text[i].kind = "number"
                  /\ \E h \in 1..(i - 1) :
                        /\ text[h].kind = "header"
                        /\ \A j \in (h + 1)..i : text[j].kind = "number")})

\* Line 58, re.sub(r'^\d+\s*$', '', text, flags=re.MULTILINE) on a text
\* without line breaks: a text of digits and then white space only goes.
remove_page_number(text) ==
    IF /\ text # <<>>
       /\ text[1].kind = "number"
       /\ \E m \in DOMAIN text :
             /\ \A i \in 1..m : text[i].kind = "number"
             /\ \A i \in (m + 1)..Len(text) : IsSpace(text[i])
    THEN <<>>
    ELSE text

\* str.strip()
strip(text) ==
    Pick(text,
         {i \in DOMAIN text :
             /\ \E a \in 1..i : ~IsSpace(text[a])
             /\ \E b \in i..Len(text) : ~IsSpace(text[b])})

\* _clean_text, lines 50-66 (lines 61-63 replace characters one for one).
_clean_text(text) ==
    strip(remove_page_number(remove_headers(collapse_whitespace(text))))

\* Position i of text is white space that follows a . ! or ?, directly or
\* after white space: it is part of a match of (?<=[.!?])\s+.
IsSeparator(text, i) ==
    /\ IsSpace(text[i])
    /\ \E a \in 1..(i - 1) :
          /\ text[a].kind = "word"
          /\ text[a].ends
          /\ \A j \in (a + 1)..i : IsSpace(text[j])

\* The positions where a match of (?<=[.!?])\s+ begins.
Separators(text) ==
    {i \in DOMAIN text : IsSeparator(text, i) /\ ~IsSeparator(text, i - 1)}

\* Line 75: sentences = re.split(r'(?<=[.!?])\s+', text)
sentences(text) ==
    [k \in 1..(Cardinality(Separators(text)) + 1) |->
        Pick(text,
             {i \in DOMAIN text :
                 /\ ~IsSeparator(text, i)
                 /\ Cardinality({sep \in Separators(text) : sep < i}) = k - 1})]

\* A chunk dict that holds current_chunk as it is.
chunk_unstripped(current_chunk, chunks) ==
    [text |-> current_chunk, chunk_id |-> Len(chunks)]

\* Lines 85-94 and 104-113: the chunk dict (source, page and the clause
\* fields left out).
chunk(current_chunk, chunks) ==
    [text |-> strip(current_chunk), chunk_id |-> Len(chunks)]

\* A new chunk that leaves out the sentence that did not fit.
started_empty(sentence) == <<>>

\* Line 97: current_chunk = sentence + " "
started(sentence) == sentence \o <<ONE_SPACE>>

\* A pass that puts the sentence that does not fit into the chunk it emits.
pass_including(loop, sentence) ==
    IF /\ Length(loop.current_chunk) + Length(sentence) > chunk_size
       /\ loop.current_chunk # <<>>
    THEN [chunks |-> Append(loop.chunks,
                            [text |-> strip(loop.current_chunk \o sentence),
                             chunk_id |-> Len(loop.chunks)]),
          current_chunk |-> <<>>]
    ELSE [chunks |-> loop.chunks,
          current_chunk |-> loop.current_chunk \o sentence \o <<ONE_SPACE>>]

\* Lines 79-99: one pass of the loop for sentence, from the chunks and
\* current_chunk of loop.
pass(loop, sentence) ==
    IF /\ Length(loop.current_chunk) + Length(sentence) > chunk_size
       /\ loop.current_chunk # <<>>
    THEN [chunks |-> Append(loop.chunks, chunk(loop.current_chunk, loop.chunks)),
          current_chunk |-> started(sentence)]
    ELSE [chunks |-> loop.chunks,
          current_chunk |-> loop.current_chunk \o sentence \o <<ONE_SPACE>>]

\* Lines 77-99: the loop over split.
loop_over(split) ==
    LET after[n \in 0..Len(split)] ==
            IF n = 0 THEN [chunks |-> <<>>, current_chunk |-> <<>>]
            ELSE pass(after[n - 1], split[n])
    IN  after[Len(split)]

\* Lines 101-115: the last chunk, if it has content, and the return.
finished(loop) ==
    IF strip(loop.current_chunk) # <<>>
    THEN Append(loop.chunks, chunk(loop.current_chunk, loop.chunks))
    ELSE loop.chunks

\* _create_chunks, lines 68-115.
_create_chunks(text) == finished(loop_over(sentences(text)))

\* The items of the page texts.
WORD == [kind |-> "word", len |-> 400, ends |-> FALSE]
CLAUSE == [kind |-> "word", len |-> 400, ends |-> TRUE]
LONG_CLAUSE == [kind |-> "word", len |-> 700, ends |-> TRUE]
NUMBER == [kind |-> "number", len |-> 2, ends |-> FALSE]
HEADER == [kind |-> "header", len |-> 11, ends |-> FALSE]

Items == {WORD, CLAUSE, LONG_CLAUSE, ONE_SPACE, NUMBER, HEADER}

\* Largest number of items in a page text.
MaxItems == 5

PageTexts == UNION {[1..n -> Items] : n \in 0..MaxItems}

\* The record of a completed step on a page.
Step(op, text, ret) == [op |-> op, text |-> text, ret |-> ret]

InitChunk ==
    /\ \E text \in PageTexts : last = Step("get_text", text, <<>>)
    /\ disk = NoFiles
    /\ self = VectorStoreInit(NoFiles)
    /\ pc = [t \in Threads |-> "idle"]
    /\ frame = [t \in Threads |-> NoFrame]
    /\ epoch = NoEpoch
    /\ begun = 0
    /\ build = None

\* Line 28: text = self._clean_text(text)
CleanText ==
    /\ last.op = "get_text"
    /\ last' = Step("_clean_text", _clean_text(last.text), <<>>)
    /\ UNCHANGED <<self, disk, threadvars, build>>

\* Lines 30-31: if not text.strip(): continue
SkipPage ==
    /\ last.op = "_clean_text"
    /\ strip(last.text) = <<>>
    /\ last' = Step("continue", last.text, <<>>)
    /\ UNCHANGED <<self, disk, threadvars, build>>

\* Line 34: page_chunks = self._create_chunks(text, page_num + 1, filename)
CreateChunks ==
    /\ last.op = "_clean_text"
    /\ strip(last.text) # <<>>
    /\ last' = Step("_create_chunks", last.text, _create_chunks(last.text))
    /\ UNCHANGED <<self, disk, threadvars, build>>

\* _create_chunks called with the page text as get_text gave it.
CreateChunksOfRawText ==
    /\ last.op = "get_text"
    /\ last' = Step("_create_chunks(raw)", last.text, _create_chunks(last.text))
    /\ UNCHANGED <<self, disk, threadvars, build>>

NextChunk ==
    \/ CleanText
    \/ SkipPage
    \/ CreateChunks
    \/ CreateChunksOfRawText

SpecChunk == InitChunk /\ [][NextChunk]_vars

(***************************************************************************)
(* _parse_structured_query on the queries of a bounded set (SpecQuery).    *)
(* A query is what the function reads of it: its runs of digits and the    *)
(* entries of medical_terms, body_parts and location_terms it contains.    *)
(***************************************************************************)
\* The runs of digits: "46M knee", "3-month", "46 years", "46F-year",
\* "46yr", "30 days", "46 knee", "46Mknee".
NumberShapes ==
    {Digits("m", " ", "other"), Digits("", "-", "month"), Digits("", " ", "year"),
     Digits("f", "-", "year"), Digits("", "", "yr"), Digits("", " ", "day"),
     Digits("", " ", "other"), Digits("m", "", "other")}

\* Largest number of runs of digits in a query.
MaxNumbers == 2

QueryShapes ==
    {[numbers |-> numbers, medical |-> medical, body |-> body, locations |-> locations] :
        numbers \in {ns \in SUBSET NumberShapes : Cardinality(ns) <= MaxNumbers},
        medical \in {{}, {"surgery"}},
        body \in {{}, {"knee"}},
        locations \in {{}, {"pune"}, {"pune", "mumbai"}}}

\* The query "46M knee surgery Pune 3-month policy".
SCENARIO ==
    [numbers |-> {Digits("m", " ", "other"), Digits("", "-", "month")},
     medical |-> {"surgery"}, body |-> {"knee"}, locations |-> {"pune"}]

InitQuery ==
    /\ \E query \in QueryShapes : last = Step("query", query, {})
    /\ disk = NoFiles
    /\ self = VectorStoreInit(NoFiles)
    /\ pc = [t \in Threads |-> "idle"]
    /\ frame = [t \in Threads |-> NoFrame]
    /\ epoch = NoEpoch
    /\ begun = 0
    /\ build = None

\* Line 83: parsed_terms = self._parse_structured_query(query)
ParseStructuredQuery ==
    /\ last.op = "query"
    /\ last' = Step("_parse_structured_query", last.text, parsed_terms_of(last.text))
    /\ UNCHANGED <<self, disk, threadvars, build>>

NextQuery == ParseStructuredQuery

SpecQuery == InitQuery /\ [][NextQuery]_vars

(***************************************************************************)
(* _extract_clause_info on the texts of a bounded set (SpecClause).        *)
(* A text is the sequence of its characters, with a word of two or more    *)
(* letters kept as one element: <<"Clause", " ", "5", ".", "1">>.  Places   *)
(* in a text run from 1 to Len(text) + 1, the place after the last.        *)
(***************************************************************************)
\* The sequences of seqs, one after the other.
Concat(seqs) ==
    LET upto[n \in 0..Len(seqs)] == IF n = 0 THEN <<>> ELSE upto[n - 1] \o seqs[n]
    IN  upto[Len(seqs)]

IsDigit(c) == c \in {"0", "1", "2", "3", "4", "5", "6", "7", "8", "9"}

IsWhite(c) == c \in {" ", "\n"}

\* [A-Z] under re.IGNORECASE, followed by the other letters of the word.
IsLetters(c) == ~IsDigit(c) /\ ~IsWhite(c) /\ c \notin {".", ":", "-", "%"}

\* (?:Clause|Section|Article) under re.IGNORECASE.
IsLabel(c) == c \in {"Clause", "clause", "Section", "section", "Article", "article"}

\* Clause under re.IGNORECASE.
IsClause(c) == c \in {"Clause", "clause"}

\* \s* and \s+ from place i, taken greedily: the end of the white space at i.
white_end(text, i) ==
    CHOOSE j \in i..(Len(text) + 1) :
        /\ \A k \in i..(j - 1) : IsWhite(text[k])
        /\ j = Len(text) + 1 \/ ~IsWhite(text[j])

\* \d+(?:\.\d+)* matches the characters from place i up to place j.
is_number(text, i, j) ==
    /\ j > i
    /\ IsDigit(text[i])
    /\ IsDigit(text[j - 1])
    /\ \A k \in i..(j - 1) :
          \/ IsDigit(text[k])
          \/ text[k] = "." /\ IsDigit(text[k - 1]) /\ IsDigit(text[k + 1])

number_ends(text, i) == {j \in (i + 1)..(Len(text) + 1) : is_number(text, i, j)}

\* [^\n.]+ and [^.]+ from place p, taken greedily: the first of stops from p.
run_end(text, p, stops) ==
    CHOOSE j \in p..(Len(text) + 1) :
        /\ \A k \in p..(j - 1) : text[k] \notin stops
        /\ j = Len(text) + 1 \/ text[j] \in stops

first_place(places) == CHOOSE i \in places : \A j \in places : i <= j

last_place(places) == CHOOSE i \in places : \A j \in places : i >= j

\* \s*:?\s*([^\n.]+) after a number that ends at place e: the ways to reach
\* the first character of the title, <<end of \s*, end of :?, end of \s*>>.
title_starts(text, e) ==
    UNION {UNION {{<<a, c, p>> : p \in {q \in c..white_end(text, c) :
                                           q <= Len(text) /\ text[q] \notin {"\n", "."}}} :
                  c \in {a} \cup (IF a <= Len(text) /\ text[a] = ":" THEN {a + 1} ELSE {})} :
           a \in e..white_end(text, e)}

\* The matcher tries the longer match of each part first, part by part.
tried_before(x, y) ==
    \/ x[1] > y[1]
    \/ x[1] = y[1] /\ x[2] > y[2]
    \/ x[1] = y[1] /\ x[2] = y[2] /\ x[3] > y[3]

first_tried(starts) ==
    CHOOSE x \in starts : \A y \in starts : x = y \/ tried_before(x, y)

\* Line 125 from the label at place i: the ends of the number with a title.
labelled_ends(text, i) ==
    IF i + 1 > Len(text) \/ ~IsWhite(text[i + 1]) THEN {}
    ELSE {e \in number_ends(text, white_end(text, i + 1)) : title_starts(text, e) # {}}

labelled_groups(text, i, e, p) ==
    <<SubSeq(text, white_end(text, i + 1), e - 1),
      SubSeq(text, p, run_end(text, p, {"\n", "."}) - 1)>>

\* Line 125: (?:Clause|Section|Article)\s+(\d+(?:\.\d+)*)\s*:?\s*([^\n.]+)
labelled(text) ==
    LET starts == {i \in DOMAIN text : IsLabel(text[i]) /\ labelled_ends(text, i) # {}}
    IN  IF starts = {} THEN None
        ELSE Some(labelled_groups(text, first_place(starts),
                      last_place(labelled_ends(text, first_place(starts))),
                      first_tried(title_starts(text,
                          last_place(labelled_ends(text, first_place(starts)))))[3]))

\* Line 126 from the digit at place i: the ends of the number with ". Title".
numbered_ends(text, i) ==
    {e \in number_ends(text, i) :
        /\ e <= Len(text)
        /\ text[e] = "."
        /\ white_end(text, e + 1) <= Len(text)
        /\ IsLetters(text[white_end(text, e + 1)])}

numbered_groups(text, i, e) ==
    <<SubSeq(text, i, e - 1),
      SubSeq(text, white_end(text, e + 1),
             run_end(text, white_end(text, e + 1), {"."}) - 1)>>

\* Line 126: (\d+(?:\.\d+)*)\.\s*([A-Z][^.]+)
numbered(text) ==
    LET starts == {i \in DOMAIN text : IsDigit(text[i]) /\ numbered_ends(text, i) # {}}
    IN  IF starts = {} THEN None
        ELSE Some(numbered_groups(text, first_place(starts),
                      last_place(numbered_ends(text, first_place(starts)))))

\* \s*-\s*Clause\s+(\d+(?:\.\d+)*) matches from place g.
is_trailer(text, g) ==
    /\ white_end(text, g) <= Len(text)
    /\ text[white_end(text, g)] = "-"
    /\ white_end(text, white_end(text, g) + 1) <= Len(text)
    /\ IsClause(text[white_end(text, white_end(text, g) + 1)])
    /\ white_end(text, white_end(text, white_end(text, g) + 1) + 1)
           > white_end(text, white_end(text, g) + 1) + 1
    /\ number_ends(text, white_end(text, white_end(text, white_end(text, g) + 1) + 1)) # {}

\* Line 127 from the word at place i: the ends of [A-Z][^.]+ with a trailer.
trailing_ends(text, i) ==
    {g \in (i + 1)..run_end(text, i, {"."}) : is_trailer(text, g)}

trailing_groups(text, i, g) ==
    <<SubSeq(text, i, g - 1),
      SubSeq(text, white_end(text, white_end(text, g + 1) + 1),
             last_place(number_ends(text, white_end(text, white_end(text, g + 1) + 1))) - 1)>>

\* Line 127: ([A-Z][^.]+)\s*-\s*Clause\s+(\d+(?:\.\d+)*)
trailing(text) ==
    LET starts == {i \in DOMAIN text : IsLetters(text[i]) /\ trailing_ends(text, i) # {}}
    IN  IF starts = {} THEN None
        ELSE Some(trailing_groups(text, first_place(starts),
                      last_place(trailing_ends(text, first_place(starts)))))

\* Lines 124-128.
clause_patterns == <<"Clause number: title", "number. Title", "Title - Clause number">>

\* Line 131: match = re.search(pattern, text, re.IGNORECASE)
search(pattern, text) ==
    CASE pattern = clause_patterns[1] -> labelled(text)
      [] pattern = clause_patterns[2] -> numbered(text)
      [] pattern = clause_patterns[3] -> trailing(text)

\* Line 136: title.strip()
stripped(title) ==
    LET kept == {k \in DOMAIN title : ~IsWhite(title[k])}
    IN  IF kept = {} THEN <<>> ELSE SubSeq(title, first_place(kept), last_place(kept))

\* Line 133: 'Clause' in pattern or 'Section' in pattern
names_clause(pattern) == pattern \in {clause_patterns[1], clause_patterns[3]}

\* Lines 133-138: both branches assign group(1) to the number.
clause_info_of(pattern, match) ==
    IF names_clause(pattern)
    THEN [number |-> match[1], title |-> stripped(match[2])]
    ELSE [number |-> match[1], title |-> stripped(match[2])]

\* Line 139: break at the first pattern that matches.
pattern_used_last(matching) == last_place(matching)

pattern_used(matching) == first_place(matching)

\* _extract_clause_info, lines 117-141.
_extract_clause_info(text) ==
    LET matching == {n \in DOMAIN clause_patterns : search(clause_patterns[n], text) # None}
    IN  IF matching = {} THEN [title |-> <<>>, number |-> <<>>]
        ELSE clause_info_of(clause_patterns[pattern_used(matching)],
                            Value(search(clause_patterns[pattern_used(matching)], text)))

\* The pieces the texts are made of.
Pieces ==
    {<<"Clause", " ", "5", ".", "1">>, <<"Section", " ", "1", "2">>,
     <<"Room", " ", "Rent">>, <<":", " ">>, <<".", " ">>, <<" ", "-", " ">>,
     <<"3">>, <<".">>, <<" ">>, <<"\n">>}

\* Largest number of pieces in a text.
MaxPieces == 4

\* "Clause 5.1: Room Rent. The room rent shall not exceed 2% of sum insured.
\* Clause 5.2: ICU charges apply."
ROOM_RENT ==
    <<"Clause", " ", "5", ".", "1", ":", " ", "Room", " ", "Rent", ".", " ",
      "The", " ", "room", " ", "rent", " ", "shall", " ", "not", " ", "exceed", " ",
      "2", "%", " ", "of", " ", "sum", " ", "insured", ".", " ",
      "Clause", " ", "5", ".", "2", ":", " ", "ICU", " ", "charges", " ", "apply", ".">>

\* "3. Exclusions - Clause 5.1: Room Rent"
EXCLUSIONS ==
    <<"3", ".", " ", "Exclusions", " ", "-", " ", "Clause", " ", "5", ".", "1",
      ":", " ", "Room", " ", "Rent">>

ClauseTexts ==
    {Concat(pieces) : pieces \in UNION {[1..n -> Pieces] : n \in 0..MaxPieces}}
        \cup {ROOM_RENT, EXCLUSIONS}

\* A text as _clean_text returns it, short of chunk_size: no white space but
\* single spaces between other characters, no "Page 1 of 2", and more than
\* a page number.  _create_chunks makes one chunk of it, and current_chunk
\* is the text and the space of line 99.
IsCleaned(text) ==
    /\ \E i \in DOMAIN text : ~IsDigit(text[i])
    /\ \A i \in DOMAIN text : text[i] \notin {"\n", "Page", "page"}
    /\ \A i \in DOMAIN text :
          text[i] = " " => i > 1 /\ i < Len(text) /\ text[i - 1] # " "

InitClause ==
    /\ \E text \in ClauseTexts : last = Step("text", text, {})
    /\ disk = NoFiles
    /\ self = VectorStoreInit(NoFiles)
    /\ pc = [t \in Threads |-> "idle"]
    /\ frame = [t \in Threads |-> NoFrame]
    /\ epoch = NoEpoch
    /\ begun = 0
    /\ build = None

\* _extract_clause_info(text)
ExtractClauseInfo ==
    /\ last.op = "text"
    /\ last' = Step("_extract_clause_info", last.text, _extract_clause_info(last.text))
    /\ UNCHANGED <<self, disk, threadvars, build>>

\* Line 103: clause_info = self._extract_clause_info(current_chunk)
ExtractOfLastChunk ==
    /\ last.op = "text"
    /\ IsCleaned(last.text)
    /\ last' = Step("_create_chunks", last.text,
                    _extract_clause_info(last.text \o <<" ">>))
    /\ UNCHANGED <<self, disk, threadvars, build>>

NextClause == ExtractClauseInfo \/ ExtractOfLastChunk

SpecClause == InitClause /\ [][NextClause]_vars

(***************************************************************************)
(* _is_relevant_content on the chunks of a bounded set (SpecFilter).       *)
(* A chunk is what the function reads of its text: the six facts of        *)
(* TextFacts that lines 256-300 test.                                      *)
(***************************************************************************)
ChunkFacts(len, contact, uin, keyword, codes, longwords) ==
    [len |-> len, contact |-> contact, uin |-> uin, keyword |-> keyword,
     codes |-> codes, longwords |-> longwords]

\* "For more details, log on to: www.bajajallianz.com or write to us today."
FOOTER == ChunkFacts(71, TRUE, FALSE, FALSE, FALSE, 8)

\* "Clause 4.2: Ambulance charges are covered up to Rs 2000. For more
\* details, log on to: www.bajajallianz.com"
FOOTED_CLAUSE == ChunkFacts(106, TRUE, FALSE, TRUE, TRUE, 13)

\* "Knee surgery is covered."
SHORT_CLAUSE == ChunkFacts(24, FALSE, FALSE, TRUE, FALSE, 3)

ChunkLengths == {0, 24, 49, 50, 100, 101, 199, 200, 436}

ChunkLongwords == {0, 2, 5, 6, 13}

\* The facts that some text has: a word longer than 2 takes three characters
\* and a space, the shortest entry of pure_contact_patterns 20 characters, a
\* keyword one, a code three; a text that the UIN regex matches is "uin", a
\* separator and one word of letters and digits.
ChunkShapes ==
    {f \in {ChunkFacts(len, contact, uin, keyword, codes, longwords) :
                len \in ChunkLengths, contact \in BOOLEAN, uin \in BOOLEAN,
                keyword \in BOOLEAN, codes \in BOOLEAN, longwords \in ChunkLongwords} :
        /\ 4 * f.longwords <= f.len + 1
        /\ f.contact => f.len >= 20
        /\ f.keyword => f.len >= 1
        /\ f.codes => f.len >= 3
        /\ f.uin => ~f.contact /\ ~f.codes /\ f.longwords <= 2 /\ f.len >= 4}
        \cup {FOOTER, FOOTED_CLAUSE, SHORT_CLAUSE}

InitFilter ==
    /\ \E facts \in ChunkShapes : last = Step("chunk", facts, {})
    /\ disk = NoFiles
    /\ self = VectorStoreInit(NoFiles)
    /\ pc = [t \in Threads |-> "idle"]
    /\ frame = [t \in Threads |-> NoFrame]
    /\ epoch = NoEpoch
    /\ begun = 0
    /\ build = None

\* Line 45: if self._is_relevant_content(doc['text'])
IsRelevantContent ==
    /\ last.op = "chunk"
    /\ last' = Step("_is_relevant_content", last.text, is_relevant_content_of(last.text))
    /\ UNCHANGED <<self, disk, threadvars, build>>

NextFilter == IsRelevantContent

SpecFilter == InitFilter /\ [][NextFilter]_vars

(***************************************************************************)
(* Properties of the store, one call at a time (Spec).                     *)
(***************************************************************************)
\* Number of rows of the document-term matrix (0: no matrix).
Rows(s) == IF s.vectors = None THEN 0 ELSE Len(Value(s.vectors))

TextsOf(documents) == {documents[i].text : i \in DOMAIN documents}

\* The chunks of a batch that pass the relevance filter, in input order.
Relevant(documents) ==
    SelectSeq(documents, LAMBDA doc : _is_relevant_content(doc.text))

\* Every outcome a search on store s can have, over all queries and k.
SearchOutcomes(s) ==
    UNION {search_documents(s, query, k) : query \in Queries, k \in 1..MaxK}

\* C1: search(query, k) on an EMPTY index (no matrix) returns an empty
\* sequence for every query and k, and never raises.
C1_SearchOnEmptyReturnsEmpty ==
    (last.op = "search_documents" /\ ~last.before.ready)
        => (~last.raised /\ last.ret = <<>>)

\* C2: replace semantics.  After index(batch1) followed by index(batch2) of
\* disjoint content, count() is the number of batch2's surviving chunks and no
\* search result is a document of batch1.
C2_ReplaceSemantics ==
    (/\ last.op = "add_documents"
     /\ last.before.documents # <<>>
     /\ TextsOf(last.before.documents) \cap TextsOf(last.documents) = {})
        => /\ get_document_count(self) = Len(Relevant(last.documents))
           /\ \A r \in SearchOutcomes(self) : \A i \in DOMAIN r.ret :
                  r.ret[i].text \notin TextsOf(last.before.documents)

\* C2 witness: a built batch was replaced by a disjoint batch that was built
\* too, and a search finds a document of the new batch.
C2_Witness ==
    /\ last.op = "add_documents"
    /\ ~last.raised
    /\ last.before.ready
    /\ Len(last.before.documents) >= 2
    /\ TextsOf(last.before.documents) \cap TextsOf(last.documents) = {}
    /\ Rows(self) = Len(self.documents)
    /\ \E r \in SearchOutcomes(self) : r.ret # <<>>

\* C5: index(chunks) with no chunk passing the filter leaves the index EMPTY
\* from any prior state: count() = 0, the previous matrix is gone, and a
\* following search returns no document.
C5_NoSurvivorLeavesEmpty ==
    (last.op = "add_documents" /\ Relevant(last.documents) = <<>>)
        => /\ get_document_count(self) = 0
           /\ self.vectors = None
           /\ \A r \in SearchOutcomes(self) : r.ret = <<>>

\* C6: after a restart the loaded document list is empty or exactly the
\* surviving documents of the most recent index() call (the documents the
\* store held when the process went down).
C6_RestartLoadsLatestBatch ==
    last.op = "__init__"
        => (self.documents = <<>> \/ self.documents = last.before.documents)

\* C7: between calls the matrix has as many rows as the document list has
\* documents (both zero when the index is EMPTY).
C7_RowsMatchDocuments == Rows(self) = Len(self.documents)

\* C8: after index(chunks) returns normally the indexed documents are exactly
\* the chunks that pass is_relevant, in input order, and count() is their number.
C8_IndexedAreTheRelevantChunks ==
    (last.op = "add_documents" /\ ~last.raised)
        => /\ self.documents = Relevant(last.documents)
           /\ get_document_count(self) = Len(Relevant(last.documents))

\* C8 witness: a batch was built from which the filter dropped a chunk and
\* kept others.
C8_Witness ==
    /\ last.op = "add_documents"
    /\ ~last.raised
    /\ self.documents # <<>>
    /\ Len(self.documents) < Len(last.documents)
    /\ Rows(self) = Len(self.documents)

\* C9: index() on two chunks of which exactly one passes the filter (the other
\* is shorter than 50 characters) completes without error, leaves the index
\* READY with a one-row matrix and a persisted snapshot, and count() is 1.
C9_OneSurvivorIsIndexed ==
    (/\ last.op = "add_documents"
     /\ Len(last.documents) = 2
     /\ Len(Relevant(last.documents)) = 1
     /\ \E i \in 1..2 : TextFacts(last.documents[i].text).len < 50)
        => /\ ~last.raised
           /\ Rows(self) = 1
           /\ disk = _save_vectors(self, disk)
           /\ get_document_count(self) = 1

Snapshot(s) == [vectorizer |-> Some(s.vectorizer), vectors |-> s.vectors,
                documents |-> s.documents]

\* The complete snapshots: what a successful add_documents leaves in memory.
Snapshots ==
    {Snapshot(add_documents(NewStore, NoFiles, b).self) :
        b \in {c \in Batches \cup ConcBatches :
                 LET r == add_documents(NewStore, NoFiles, c)
                 IN  ~r.raised /\ r.self.vectors # None}}

\* The store and files after call c runs alone from the store and files sd.
Apply(c, sd) ==
    IF c.op = "add_documents"
    THEN LET r == add_documents(sd.self, sd.disk, c.documents)
         IN  [self |-> r.self, disk |-> r.disk]
    ELSE clear_all_documents(sd.self, sd.disk)

OpsOf(calls) == {calls[i].op : i \in DOMAIN calls}

\* C3: a search_documents that overlaps one add_documents, begun on a complete
\* snapshot, has read its vectorizer, its matrix and its document list from
\* one and the same complete snapshot when it reaches its final sort.
C3_SearchSeesOneSnapshot ==
    \A t \in Threads :
        (/\ pc[t] = "search_122"
         /\ Len(epoch.calls) = 2
         /\ OpsOf(epoch.calls) = {"search_documents", "add_documents"}
         /\ Snapshot(epoch.self) \in Snapshots)
        => \E snap \in Snapshots :
              /\ frame[t].seen.vectorizer = snap.vectorizer
              /\ frame[t].seen.vectors = snap.vectors
              /\ frame[t].seen.documents \subseteq {snap.documents}

\* C4: when two overlapping calls among add_documents and clear_all_documents
\* have both returned, the store and the files are what running the two calls
\* one after the other, in one of the two orders, leaves.
C4_IndexAndClearAreSerializable ==
    (/\ Running = {}
     /\ Len(epoch.calls) = 2
     /\ OpsOf(epoch.calls) \subseteq {"add_documents", "clear_all_documents"})
    => LET start == [self |-> epoch.self, disk |-> epoch.disk]
           c1 == epoch.calls[1]
           c2 == epoch.calls[2]
       IN  [self |-> self, disk |-> disk]
               \in {Apply(c2, Apply(c1, start)), Apply(c1, Apply(c2, start))}

(***************************************************************************)
(* Properties of the store over a file system that can fail (SpecIO).      *)
(***************************************************************************)
\* A file that is absent or cannot be unpickled.
Unusable(file) == file = None \/ IsCorrupt(file)

UnusableFiles(d) ==
    {name \in {"vectorizer_file", "vectors_file", "docs_file"} : Unusable(d[name])}

\* C11: a store constructed over files of which one is absent or unreadable
\* is EMPTY as a whole (count() = 0, no matrix, no documents), and the
\* construction does not raise.
C11_PartialSnapshotLoadsEmpty ==
    (last.op = "__init__" /\ UnusableFiles(disk) # {})
        => /\ ~last.raised
           /\ get_document_count(self) = 0
           /\ self.vectors = None
           /\ self.documents = <<>>

\* C11 witness: a restart found exactly one of the three files unusable, the
\* other two holding a build.
C11_Witness ==
    /\ last.op = "__init__"
    /\ Cardinality(UnusableFiles(disk)) = 1
    /\ self.documents = <<>>

\* C12: when the save of add_documents fails, add_documents still returns
\* normally and the store in memory is READY with the new batch: count() is
\* the number of surviving chunks and search answers as it does after the
\* same batch was indexed with a successful save.
C12_SaveFailureKeepsMemoryIndex ==
    (last.op = "add_documents" /\ last.fault \in SaveFaults)
        => /\ ~last.raised
           /\ self.vectors # None
           /\ Rows(self) = Len(self.documents)
           /\ self.documents = Relevant(last.documents)
           /\ get_document_count(self) = Len(Relevant(last.documents))
           /\ SearchOutcomes(self)
                = SearchOutcomes(add_documents(NewStore, NoFiles, last.documents).self)
           /\ \A r \in SearchOutcomes(self) :
                 /\ ~r.raised
                 /\ \A i \in DOMAIN r.ret : r.ret[i].text \in TextsOf(last.documents)

\* C12 witness: a save failed and a search finds a document of the new batch.
C12_Witness ==
    /\ last.op = "add_documents"
    /\ last.fault \in SaveFaults
    /\ \E r \in SearchOutcomes(self) : r.ret # <<>>

raw_similarities(s, query) ==
    cosine_similarity(
        transform(s.vectorizer,
                  Ngrams(expanded_query(query, _parse_structured_query(query)))),
        Value(s.vectors)).similarities

\* Store s holds the vectorizer, matrix and documents of one build.
Complete(s) == Snapshot(s) \in Snapshots

\* The rows of the documents of s with the given text.
RowsOf(s, text) == {idx \in DOMAIN s.documents : s.documents[idx].text = text}

\* C14: floor property.  No document whose raw cosine similarity is at most
\* 0.01 is in the result of a search, whatever its boosted score would be.
C14_FloorProperty ==
    (last.op = "search_documents" /\ Complete(self))
        => \A i \in DOMAIN last.ret :
              \A idx \in RowsOf(self, last.ret[i].text) :
                  raw_similarities(self, last.query)[idx] > Floor

\* C14 witness: a search left out a document of positive raw similarity at or
\* below the floor, within the top k, whose boosted score is above the floor.
C14_Witness ==
    /\ last.op = "search_documents"
    /\ Complete(self)
    /\ last.k >= Len(self.documents)
    /\ \E idx \in DOMAIN self.documents :
          LET raw == raw_similarities(self, last.query)[idx]
          IN  /\ 0 < raw
              /\ raw <= Floor
              /\ scored(self.documents[idx], raw, last.query,
                        _parse_structured_query(last.query)).similarity_score > Floor
              /\ \A i \in DOMAIN last.ret : last.ret[i].text # self.documents[idx].text

\* C15: cap property.  Every score a search returns is at most 1.0, boosted
\* or not.
C15_CapProperty ==
    last.op = "search_documents"
        => \A i \in DOMAIN last.ret : last.ret[i].similarity_score <= 1000

\* C16: for k > 0 a search returns at most k documents, each above the floor
\* and among the k highest by raw cosine similarity.
C16_AtMostKOfTheTopK ==
    (last.op = "search_documents" /\ Complete(self) /\ last.k > 0)
        => /\ Len(last.ret) <= last.k
           /\ \A i \in DOMAIN last.ret :
                 \E idx \in RowsOf(self, last.ret[i].text) :
                     LET raw == raw_similarities(self, last.query)
                     IN  /\ raw[idx] > Floor
                         /\ Cardinality({j \in DOMAIN raw : raw[j] > raw[idx]}) < last.k

\* C16 witness: a search returned k documents and left out a document above
\* the floor that is not among the k highest.
C16_Witness ==
    /\ last.op = "search_documents"
    /\ Complete(self)
    /\ Len(last.ret) = last.k
    /\ \E idx \in DOMAIN self.documents :
          /\ raw_similarities(self, last.query)[idx] > Floor
          /\ \A i \in DOMAIN last.ret : last.ret[i].text # self.documents[idx].text

C18_SearchIsReadOnly ==
    [][last'.op = "search_documents"
       => /\ self' = self
          /\ disk' = disk
          /\ get_document_count(self') = get_document_count(self)
          /\ \A idx \in DOMAIN self'.documents :
                "similarity_score" \notin DOMAIN self'.documents[idx]]_vars

\* C18 witness: a search returned scored copies of stored documents.
C18_Witness ==
    /\ last.op = "search_documents"
    /\ last.ret # <<>>
    /\ \A i \in DOMAIN last.ret :
          /\ "similarity_score" \in DOMAIN last.ret[i]
          /\ \E idx \in DOMAIN self.documents :
                /\ self.documents[idx].text = last.ret[i].text
                /\ "similarity_score" \notin DOMAIN self.documents[idx]

(***************************************************************************)
(* Properties of the upload handler (SpecUpload).                          *)
(***************************************************************************)
\* The chunks of the PDFs of an upload request, pages that cannot be read
\* left out.
ChunksOf(files) ==
    UNION {{[text |-> text] : text \in Range(Value(page))} :
              page \in UNION {{p \in Range(files[i].pdf.pages) : p # None}
                                 : i \in DOMAIN files}}

\* C19: when the extraction of a file fails during an upload, no chunk of
\* the failed file is indexed and the index holds no part of the batch, such
\* as the files that came before the failed one.
C19_FailedExtractionIndexesNothing ==
    (last.op = "upload_files" /\ last.error = "extraction")
        => Range(self.documents) \cap ChunksOf(last.files) = {}

\* C19 witness: an upload ended on a file that failed to extract after an
\* earlier file of the request had been indexed.
C19_Witness ==
    /\ last.op = "upload_files"
    /\ last.error = "extraction"
    /\ last.status = 500
    /\ last.uploaded_files # <<>>

C21_SizeBound ==
    last.op = "_create_chunks"
        => \A c \in DOMAIN last.ret :
              /\ c < Len(last.ret)
                    => \E n \in DOMAIN sentences(last.text) :
                          Length(last.ret[c].text)
                              <= chunk_size + Length(sentences(last.text)[n])
              /\ Length(last.ret[c].text) > chunk_size
                    => Len(sentences(last.ret[c].text)) = 1

\* C21 witness: the chunker made a chunk longer than the target size that
\* is not the last of its page.
C21_Witness ==
    /\ last.op = "_create_chunks"
    /\ \E c \in DOMAIN last.ret :
          /\ c < Len(last.ret)
          /\ Length(last.ret[c].text) > chunk_size

\* C22: every chunk the chunker makes, of any text, has a text that is not
\* empty and neither begins nor ends with white space; an empty or
\* white-space-only page text makes no chunk.
C22_ChunksAreTrimmed ==
    /\ last.op \in {"_create_chunks", "_create_chunks(raw)"}
          => /\ \A c \in DOMAIN last.ret :
                   /\ last.ret[c].text # <<>>
                   /\ ~IsSpace(last.ret[c].text[1])
                   /\ ~IsSpace(last.ret[c].text[Len(last.ret[c].text)])
             /\ (\A i \in DOMAIN last.text : IsSpace(last.text[i]))
                   => last.ret = <<>>
    /\ last.op = "continue" => last.ret = <<>>

\* C22 witness: the chunker made chunks of a text that ends in white space
\* after a sentence terminator.
C22_Witness ==
    /\ last.op = "_create_chunks(raw)"
    /\ Len(last.text) >= 2
    /\ IsSpace(last.text[Len(last.text)])
    /\ last.text[Len(last.text) - 1].ends
    /\ last.ret # <<>>

(***************************************************************************)
(* Properties of the files over a file system that can fail (SpecIO).      *)
(***************************************************************************)
\* C23: whenever all three files are present and readable they were written
\* by one build: the store a startup loads from them holds the vectorizer,
\* matrix and documents of one add_documents.
C23_FilesAreOfOneBuild ==
    UnusableFiles(disk) = {} => Complete(VectorStoreInit(disk))

\* C23 witness: all three files are present and readable after an
\* add_documents whose save failed.
C23_Witness ==
    /\ last.op = "add_documents"
    /\ last.fault \in SaveFaults
    /\ UnusableFiles(disk) = {}

(***************************************************************************)
(* Properties of the ranking of search_documents (Spec).                   *)
(***************************************************************************)
\* The places of the results with the given text.
PlacesOf(results, text) == {i \in DOMAIN results : results[i].text = text}

\* C24: ties in raw similarity are broken by the lower index.  Of two stored
\* documents of equal raw similarity above the floor, the later-indexed one
\* is in the result only if the earlier-indexed one is, and when both are
\* there with equal scores the earlier-indexed one comes first.
C24_TiesGoToTheEarlierDocument ==
    (last.op = "search_documents" /\ Complete(self))
        => \A i, j \in DOMAIN self.documents :
              LET raw == raw_similarities(self, last.query)
                  first == PlacesOf(last.ret, self.documents[i].text)
                  second == PlacesOf(last.ret, self.documents[j].text)
              IN  (/\ i < j
                   /\ Cardinality(RowsOf(self, self.documents[i].text)) = 1
                   /\ Cardinality(RowsOf(self, self.documents[j].text)) = 1
                   /\ raw[i] = raw[j]
                   /\ raw[i] > Floor)
                      => /\ second # {} => first # {}
                         /\ \A p \in first, q \in second :
                               last.ret[p].similarity_score = last.ret[q].similarity_score
                                  => p < q

\* C24 witness: a search with k = 1 returned one of two documents of equal
\* raw similarity above the floor.
C24_Witness ==
    /\ last.op = "search_documents"
    /\ Complete(self)
    /\ last.k = 1
    /\ Len(last.ret) = 1
    /\ \E i, j \in DOMAIN self.documents :
          /\ i < j
          /\ self.documents[i].text # self.documents[j].text
          /\ raw_similarities(self, last.query)[i] = raw_similarities(self, last.query)[j]
          /\ raw_similarities(self, last.query)[i] > Floor
          /\ last.ret[1].text \in {self.documents[i].text, self.documents[j].text}

(***************************************************************************)
(* Properties of _parse_structured_query (SpecQuery).                      *)
(***************************************************************************)
\* C25: a query with digits followed by "M" or "F" or by "year(s)" gets the
\* term "age", and "46M knee surgery Pune 3-month policy" yields exactly
\* age, surgery, knee, waiting period, policy duration and location.
C25_AgePatternAddsAge ==
    last.op = "_parse_structured_query"
        => /\ (\E n \in last.text.numbers : n.suffix \in {"m", "f"} \/ n.unit = "year")
                 => "age" \in last.ret
           /\ last.text = SCENARIO
                 => last.ret = {"age", "surgery", "knee", "waiting period",
                                "policy duration", "location"}

\* C25 witness: the scenario query was parsed.
C25_Witness ==
    /\ last.op = "_parse_structured_query"
    /\ last.text = SCENARIO
    /\ {"surgery", "knee", "waiting period", "policy duration", "location"}
          \subseteq last.ret

(***************************************************************************)
(* Properties of the boosts of search_documents (Spec).                    *)
(***************************************************************************)
\* The score with n further boosts of 1.3, each capped at 1.0.
RECURSIVE TimesOnePointThree(_, _)
TimesOnePointThree(score, n) ==
    IF n = 0 THEN score
    ELSE TimesOnePointThree(Min(1000, (score * 13) \div 10), n - 1)

\* C26: a result of raw similarity s has the score s multiplied by 1.3 and
\* capped at 1.0 once for each distinct expansion term in the document text,
\* then, if m > 0 query words are words of the document, multiplied by
\* min(1.5, 1.0 + 0.1 m) and capped at 1.0; so it is never below s, and it is
\* above s when s < 1 and an expansion term or a query word matches.
C26_BoostsInOrderNeverLower ==
    (last.op = "search_documents" /\ Complete(self))
        => \A p \in DOMAIN last.ret :
              \A idx \in RowsOf(self, last.ret[p].text) :
                 LET s == raw_similarities(self, last.query)[idx]
                     f == TextFacts(last.ret[p].text)
                     n == Cardinality(_parse_structured_query(last.query) \cap f.contains)
                     m == Cardinality(QueryFacts(last.query).words \cap f.words)
                     termed == TimesOnePointThree(s, n)
                     final == IF m > 0
                              THEN Min(1000, (termed * Min(15, 10 + m)) \div 10)
                              ELSE termed
                 IN  /\ last.ret[p].similarity_score = final
                     /\ last.ret[p].similarity_score >= s
                     /\ (s < 1000 /\ (n > 0 \/ m > 0))
                           => last.ret[p].similarity_score > s

\* C26 witness: a result was boosted both for an expansion term and for a
\* query word.
C26_Witness ==
    /\ last.op = "search_documents"
    /\ Complete(self)
    /\ \E p \in DOMAIN last.ret :
          /\ _parse_structured_query(last.query)
                \cap TextFacts(last.ret[p].text).contains # {}
          /\ QueryFacts(last.query).words \cap TextFacts(last.ret[p].text).words # {}
          /\ \E idx \in RowsOf(self, last.ret[p].text) :
                last.ret[p].similarity_score > raw_similarities(self, last.query)[idx]

(***************************************************************************)
(* Properties of the clause labels (SpecClause).                           *)
(***************************************************************************)
\* The text a step has passed to _extract_clause_info.
Passed(step) == IF step.op = "_create_chunks" THEN step.text \o <<" ">> ELSE step.text

\* The patterns of clause_patterns that match text, by their places in it.
Matching(text) ==
    {n \in DOMAIN clause_patterns : search(clause_patterns[n], text) # None}

\* C27: clause extraction uses the first of the three patterns, in the order
\* of clause_patterns, that matches anywhere in the chunk, wherever a later
\* pattern matches; a chunk that no pattern matches gets an empty title and
\* an empty number; the text "Clause 5.1: Room Rent. The room rent shall not
\* exceed 2% of sum insured. Clause 5.2: ICU charges apply." gets the number
\* "5.1" and the title "Room Rent".
C27_FirstMatchingPatternWins ==
    last.op \in {"_extract_clause_info", "_create_chunks"} =>
        /\ Matching(Passed(last)) = {} => last.ret = [title |-> <<>>, number |-> <<>>]
        /\ \A n \in Matching(Passed(last)) :
              (\A m \in Matching(Passed(last)) : n <= m) =>
                  /\ last.ret.number = Value(search(clause_patterns[n], Passed(last)))[1]
                  /\ last.ret.title =
                         stripped(Value(search(clause_patterns[n], Passed(last)))[2])
        /\ last.text = ROOM_RENT =>
              last.ret = [title |-> <<"Room", " ", "Rent">>, number |-> <<"5", ".", "1">>]

\* C27 witness: the chunk "3. Exclusions - Clause 5.1: Room Rent", which the
\* second and the third pattern match from places before the first
\* pattern's, has got the number and the title of the first pattern.
C27_Witness ==
    /\ last.op = "_create_chunks"
    /\ last.text = EXCLUSIONS
    /\ last.ret = [title |-> <<"Room", " ", "Rent">>, number |-> <<"5", ".", "1">>]
    /\ Matching(Passed(last)) = {1, 2, 3}
    /\ Value(numbered(Passed(last)))[1] = <<"3">>
    /\ Value(trailing(Passed(last)))[1] = <<"Exclusions", " ">>

\* C28: a chunk labelled in the third form only, "<Title> - Clause <number>"
\* (the first two patterns do not match), gets the number as its number and
\* the title as its title; whichever pattern has matched, a number that is
\* not empty is a numeric locator.
C28_ThirdFormNumberAndTitle ==
    last.op \in {"_extract_clause_info", "_create_chunks"} =>
        /\ Matching(Passed(last)) = {3} =>
              /\ last.ret.number = Value(trailing(Passed(last)))[2]
              /\ last.ret.title = stripped(Value(trailing(Passed(last)))[1])
        /\ last.ret.number # <<>> =>
              is_number(last.ret.number, 1, Len(last.ret.number) + 1)

\* C28 witness: _extract_clause_info has returned for "Room Rent - Clause
\* 5.1", which the third pattern alone matches.
C28_Witness ==
    /\ last.op = "_extract_clause_info"
    /\ last.text = <<"Room", " ", "Rent", " ", "-", " ", "Clause", " ", "5", ".", "1">>
    /\ Matching(last.text) = {3}
    /\ Value(trailing(last.text)) = <<<<"Room", " ", "Rent", " ">>, <<"5", ".", "1">>>>

(***************************************************************************)
(* Properties of the relevance filter (SpecFilter).                        *)
(***************************************************************************)
\* C29: the filter rejects every chunk of under 50 characters, a keyword in
\* it or not; of the chunks of 50 to 199 characters with a phrase of
\* pure_contact_patterns it rejects those with nothing else in them, and it
\* accepts those that have a keyword or a numeric clause pattern as well.
C29_OnlyPureBoilerplateIsRejected ==
    last.op = "_is_relevant_content" =>
        /\ last.text.len < 50 => last.ret = FALSE
        /\ last.text.len >= 50 /\ last.text.len < 200 /\ last.text.contact =>
              /\ ~last.text.keyword /\ ~last.text.codes /\ last.text.longwords <= 5
                    => last.ret = FALSE
              /\ last.text.keyword \/ last.text.codes => last.ret = TRUE

\* C29 witness: the filter has returned for a clause of 106 characters that
\* ends in a phrase of pure_contact_patterns.
C29_Witness ==
    /\ last.op = "_is_relevant_content"
    /\ last.text = FOOTED_CLAUSE
    /\ last.ret = FALSE

(***************************************************************************)
(* Properties of the upload handler, file by file (SpecUpload).            *)
(***************************************************************************)
\* A file the handler accepts and whose pages can all be read.
IsValidFile(file) ==
    /\ allowed_file(file.filename)
    /\ file.pdf.opens
    /\ \A i \in DOMAIN file.pdf.pages : file.pdf.pages[i] # None

\* The chunks of a valid file, page after page.
FileChunks(file) ==
    Concat([i \in DOMAIN file.pdf.pages |->
               [j \in DOMAIN Value(file.pdf.pages[i]) |->
                   [text |-> Value(file.pdf.pages[i])[j]]]])

====
